---- MODULE Spec2Model ----
(***************************************************************************)
(* Model of the ingredient normalizers of the APIserver repository:        *)
(*   ingredientNormalizer.js (src/unnamed/part_000): normalizeIngredient   *)
(*   ingredientCorrector.js  (src/unnamed/part_003): normalizeIngredients  *)
(* JavaScript strings are TLA+ strings, handled character by character     *)
(* (SubSeq, Len, \o), so that trimming, lower-casing, word boundaries and   *)
(* substring search are computed as the code computes them.                *)
(***************************************************************************)
EXTENDS Integers, Sequences, FiniteSets, TLC

VARIABLES
    fn,        \* the function that is called
    argType,   \* the type of its argument: "string", "array", "null", "undefined"
    layout,    \* how the caller spaced the text: "plain" or "padded"
    qtyTok,    \* the quantity text the caller wrote on the line
    unitTok,   \* the unit text the caller wrote on the line
    nameWords, \* the words of the name the caller wrote
    batch,     \* the entries of the array passed to normalizeIngredients
    pc,        \* "call" before the function ran, "done" after it returned or threw
    tables,    \* the module-level objects of the two modules: stoplists, unit maps, synonyms
    memo,      \* what each argument met so far was first answered with
    calls,     \* the number of calls made so far
    result,    \* the outcome: [ok |-> TRUE, value] returned, [ok |-> FALSE, value] thrown
    server,    \* the program that runs: "library" (no server), "parallel", "proxy",
               \* "recipe", "edamam", "edamamMemory", "route"
    keys,      \* whether the credentials the server reads from its environment are set
    clock,     \* Date.now(), in ticks of 30 seconds
    issued,    \* how many tokens the OAuth endpoint has issued; token k is the k-th
    handled,   \* how many HTTP requests the server has accepted
    response,  \* "idle", "pending", or the status the current request was answered with
    fatSecretToken,          \* part_001: the cached token, 0 for null
    fatSecretTokenExpiresAt, \* part_001: its recorded expiry
    lookups,   \* part_001: the fetchIngredientNutrition calls of the current request
    accessToken,     \* part_002: the cached token, 0 for null
    tokenExpiryTime, \* part_002: its recorded expiry
    tokenCall, \* part_002: the getAccessToken call of the current request
    fetches,   \* part_002: the fetchWithRetry calls of the current request
    api,       \* part_002: the callFatSecretApi invocation of the current request
    lastHandled, \* the token and expiry of the token response handled last
    cache,     \* server.js: the in-memory LRU, cache key -> stored payload
    analyze,   \* server.js: the handleBatchAnalyze call of the current request
    route      \* nutrition-edamam.js: the POST / call of the current request

\* the call and its argument
args == <<fn, argType, layout, qtyTok, unitTok, nameWords, batch>>

\* the state of the servers around the library
fatSecretVars ==
    <<server, keys, clock, issued, handled, response, fatSecretToken,
      fatSecretTokenExpiresAt, lookups, accessToken, tokenExpiryTime, tokenCall,
      fetches, api, lastHandled>>

edamamVars == <<cache, analyze, route>>

serverVars == <<fatSecretVars, edamamVars>>

\* the state of the library calls
libraryVars ==
    <<fn, argType, layout, qtyTok, unitTok, nameWords, batch, pc, tables, memo, calls, result>>

vars == <<libraryVars, serverVars>>

(***************************************************************************)
(* Characters and the string primitives of JavaScript                      *)
(***************************************************************************)
Ch(s, i) == SubSeq(s, i, i)

DigitChars == {"0", "1", "2", "3", "4", "5", "6", "7", "8", "9"}

\* String.prototype.toLowerCase on one ASCII character
LowerOf ==
    ( "A" :> "a" @@ "B" :> "b" @@ "C" :> "c" @@ "D" :> "d" @@ "E" :> "e"
    @@ "F" :> "f" @@ "G" :> "g" @@ "H" :> "h" @@ "I" :> "i" @@ "J" :> "j"
    @@ "K" :> "k" @@ "L" :> "l" @@ "M" :> "m" @@ "N" :> "n" @@ "O" :> "o"
    @@ "P" :> "p" @@ "Q" :> "q" @@ "R" :> "r" @@ "S" :> "s" @@ "T" :> "t"
    @@ "U" :> "u" @@ "V" :> "v" @@ "W" :> "w" @@ "X" :> "x" @@ "Y" :> "y"
    @@ "Z" :> "z" )

UpperChars == DOMAIN LowerOf
LowerChars == {LowerOf[c] : c \in UpperChars}

IsDigit(c) == c \in DigitChars
\* \s of a JavaScript regular expression, and the characters trim() removes
IsSpace(c) == c \in {" ", "\t", "\n", "\r"}
\* the line terminators that "." does not match
IsLineTerminator(c) == c \in {"\n", "\r"}
\* \w of a JavaScript regular expression
WordChars == LowerChars \cup UpperChars \cup DigitChars \cup {"_"}
IsWordChar(c) == c \in WordChars
IsLetter(c) == c \in LowerChars \cup UpperChars

LowerChar(c) == IF c \in UpperChars THEN LowerOf[c] ELSE c

RECURSIVE toLowerCase(_)
toLowerCase(s) ==
    IF s = "" THEN "" ELSE LowerChar(Ch(s, 1)) \o toLowerCase(Tail(s))

RECURSIVE trimStart(_)
trimStart(s) ==
    IF s # "" /\ IsSpace(Ch(s, 1)) THEN trimStart(Tail(s)) ELSE s

RECURSIVE trimEnd(_)
trimEnd(s) ==
    IF s # "" /\ IsSpace(Ch(s, Len(s)))
    THEN trimEnd(SubSeq(s, 1, Len(s) - 1)) ELSE s

trim(s) == trimEnd(trimStart(s))

\* s has sub at position i (1-based)
HasAt(s, sub, i) ==
    /\ i >= 1
    /\ i + Len(sub) - 1 <= Len(s)
    /\ SubSeq(s, i, i + Len(sub) - 1) = sub

\* String.prototype.indexOf from position i on, 1-based, 0 when absent
RECURSIVE indexOfFrom(_, _, _)
indexOfFrom(s, sub, i) ==
    IF i + Len(sub) - 1 > Len(s) THEN 0
    ELSE IF HasAt(s, sub, i) THEN i
    ELSE indexOfFrom(s, sub, i + 1)

includes(s, sub) == indexOfFrom(s, sub, 1) > 0

\* String.prototype.split with a non-empty string separator
RECURSIVE split(_, _)
split(s, sep) ==
    LET i == indexOfFrom(s, sep, 1)
    IN  IF i = 0 THEN <<s>>
        ELSE <<SubSeq(s, 1, i - 1)>> \o split(SubSeq(s, i + Len(sep), Len(s)), sep)

\* end (exclusive) of the longest run of \s characters that starts at i
RECURSIVE SpaceRunEnd(_, _)
SpaceRunEnd(s, i) ==
    IF i <= Len(s) /\ IsSpace(Ch(s, i)) THEN SpaceRunEnd(s, i + 1) ELSE i

\* end (exclusive) of the longest run of \S characters that starts at i
RECURSIVE NonSpaceRunEnd(_, _)
NonSpaceRunEnd(s, i) ==
    IF i <= Len(s) /\ ~IsSpace(Ch(s, i)) THEN NonSpaceRunEnd(s, i + 1) ELSE i

\* end (exclusive) of the longest run of \d characters that starts at i
RECURSIVE DigitRunEnd(_, _)
DigitRunEnd(s, i) ==
    IF i <= Len(s) /\ IsDigit(Ch(s, i)) THEN DigitRunEnd(s, i + 1) ELSE i

\* whether s holds one of the line terminators that "." refuses
RECURSIVE HasLineTerminator(_)
HasLineTerminator(s) ==
    s # "" /\ (IsLineTerminator(Ch(s, 1)) \/ HasLineTerminator(Tail(s)))

(***************************************************************************)
(* ingredientNormalizer.js: the tables                                     *)
(***************************************************************************)
\* the objects the module creates when it is loaded; the functions below
\* read them through the module's bindings
NormalizerModule ==
    [ REMOVE_ADJECTIVES |->
        << "fresh", "raw", "organic", "smoked", "thick", "thin", "large", "small",
           "extra", "extra virgin", "virgin", "plain", "unsweetened" >>,
      UNIT_MAP |->
        ( "tbsp" :> "tablespoon" @@ "tbs" :> "tablespoon"
        @@ "tablespoon" :> "tablespoon" @@ "tbspn" :> "tablespoon"
        @@ "tsp" :> "teaspoon" @@ "tsps" :> "teaspoon" @@ "teaspoon" :> "teaspoon"
        @@ "g" :> "g" @@ "gram" :> "g" @@ "grams" :> "g"
        @@ "ml" :> "ml" @@ "milliliter" :> "ml" @@ "milliliters" :> "ml"
        @@ "cup" :> "cup" @@ "cups" :> "cup"
        @@ "pinch" :> "pinch" @@ "handful" :> "handful" ),
      LIQUIDS |-> << "milk", "soy milk", "vinegar", "oil", "sauce", "water" >> ]

\* a variant of the stoplist without "virgin" and "extra virgin"
REMOVE_ADJECTIVES_NoVirgin ==
    << "fresh", "raw", "organic", "smoked", "thick", "thin", "large", "small",
       "extra", "plain", "unsweetened" >>

REMOVE_ADJECTIVES == tables.normalizer.REMOVE_ADJECTIVES

UNIT_MAP == tables.normalizer.UNIT_MAP

\* quantities are exact fractions num/den in lowest terms; 0.3 is 3/10
PINCH_IN_GRAMS == [num |-> 3, den |-> 10]

LIQUIDS == tables.normalizer.LIQUIDS

(***************************************************************************)
(* ingredientNormalizer.js: mlToGramsIfLiquid                              *)
(***************************************************************************)
IsLiquid(name) == \E k \in 1..Len(LIQUIDS) : includes(name, LIQUIDS[k])

\* a variant that applies the density of milk to the liquids
mlToGramsIfLiquid_Density(quantity, name) ==
    IF ~IsLiquid(name) THEN quantity
    ELSE [num |-> quantity.num * 103, den |-> quantity.den * 100]

mlToGramsIfLiquid(quantity, name) ==
    IF ~IsLiquid(name) THEN quantity ELSE quantity

(***************************************************************************)
(* ingredientNormalizer.js: normalizeName                                  *)
(***************************************************************************)
\* whether position k of s (1-based) holds a \w character
WordAt(s, k) == k >= 1 /\ k <= Len(s) /\ IsWordChar(Ch(s, k))

\* \b holds between positions k-1 and k
Boundary(s, k) == WordAt(s, k - 1) # WordAt(s, k)

\* a variant without the word boundaries: the adjective matches inside a word too
AdjectiveAt_InsideWords(s, adj, i) ==
    /\ i + Len(adj) - 1 <= Len(s)
    /\ toLowerCase(SubSeq(s, i, i + Len(adj) - 1)) = toLowerCase(adj)

\* the regular expression \b<adj>\b with flag i matches s at position i
AdjectiveAt(s, adj, i) ==
    /\ i + Len(adj) - 1 <= Len(s)
    /\ Boundary(s, i)
    /\ Boundary(s, i + Len(adj))
    /\ toLowerCase(SubSeq(s, i, i + Len(adj) - 1)) = toLowerCase(adj)

\* s.replace(new RegExp(`\\b${adj}\\b`, "gi"), ""), scanning from position i
RECURSIVE removeAdjectiveFrom(_, _, _)
removeAdjectiveFrom(s, adj, i) ==
    IF i > Len(s) THEN ""
    ELSE IF AdjectiveAt(s, adj, i) THEN removeAdjectiveFrom(s, adj, i + Len(adj))
    ELSE Ch(s, i) \o removeAdjectiveFrom(s, adj, i + 1)

\* a variant without the g flag: only the first occurrence is removed
RECURSIVE removeFirstAdjectiveFrom(_, _, _)
removeFirstAdjectiveFrom(s, adj, i) ==
    IF i > Len(s) THEN ""
    ELSE IF AdjectiveAt(s, adj, i) THEN SubSeq(s, i + Len(adj), Len(s))
    ELSE Ch(s, i) \o removeFirstAdjectiveFrom(s, adj, i + 1)

removeAdjective_FirstOnly(s, adj) == removeFirstAdjectiveFrom(s, adj, 1)

removeAdjective(s, adj) == removeAdjectiveFrom(s, adj, 1)

\* <list>.forEach(adj => ...): the adjectives k.. of the list are removed in order
RECURSIVE removeAdjectivesFrom(_, _, _)
removeAdjectivesFrom(s, list, k) ==
    IF k > Len(list) THEN s
    ELSE removeAdjectivesFrom(removeAdjective(s, list[k]), list, k + 1)

removeAdjectives(s) == removeAdjectivesFrom(s, REMOVE_ADJECTIVES, 1)

\* s.replace(/\s+/g, " "), scanning from position i
RECURSIVE collapseFrom(_, _)
collapseFrom(s, i) ==
    IF i > Len(s) THEN ""
    ELSE IF IsSpace(Ch(s, i)) THEN " " \o collapseFrom(s, SpaceRunEnd(s, i))
    ELSE Ch(s, i) \o collapseFrom(s, i + 1)

collapseSpaces(s) == collapseFrom(s, 1)

\* a variant that checks the balsamic rule before the others
specialFallback_BalsamicFirst(cleaned) ==
    IF includes(cleaned, "balsamic") THEN "balsamic vinegar"
    ELSE IF includes(cleaned, "soy milk") THEN "soy milk"
    ELSE IF includes(cleaned, "apple cider vinegar") THEN "vinegar"
    ELSE IF includes(cleaned, "smoked tofu") THEN "tofu"
    ELSE cleaned

\* the SPECIAL FALLBACKS, checked in the order of the code
specialFallback(cleaned) ==
    IF includes(cleaned, "soy milk") THEN "soy milk"
    ELSE IF includes(cleaned, "apple cider vinegar") THEN "vinegar"
    ELSE IF includes(cleaned, "balsamic") THEN "balsamic vinegar"
    ELSE IF includes(cleaned, "smoked tofu") THEN "tofu"
    ELSE cleaned

\* a variant that collapses the whitespace before the adjectives are removed
normalizeName_CollapseFirst(name) ==
    specialFallback(trim(removeAdjectives(collapseSpaces(trim(toLowerCase(name))))))

normalizeName(name) ==
    specialFallback(trim(collapseSpaces(removeAdjectives(trim(toLowerCase(name))))))

(***************************************************************************)
(* ingredientNormalizer.js: splitCompositeIngredients                      *)
(***************************************************************************)
Record(quantity, unit, name) == [quantity |-> quantity, unit |-> unit, name |-> name]

\* a variant that splits on "and" in any letter case
splitCompositeIngredients_AnyCase(quantity, unit, name) ==
    IF includes(toLowerCase(name), " and ")
    THEN LET parts == split(toLowerCase(name), " and ")
         IN  [k \in 1..Len(parts) |-> Record(quantity, unit, normalizeName(trim(parts[k])))]
    ELSE << Record(quantity, unit, normalizeName(name)) >>

\* a variant that gives the later parts a quantity and unit of their own
splitCompositeIngredients_Reinfer(quantity, unit, name) ==
    IF includes(name, " and ")
    THEN LET parts == split(name, " and ")
         IN  [k \in 1..Len(parts) |->
                IF k = 1 THEN Record(quantity, unit, normalizeName(trim(parts[k])))
                ELSE Record([num |-> 1, den |-> 1], "teaspoon", normalizeName(trim(parts[k])))]
    ELSE << Record(quantity, unit, normalizeName(name)) >>

splitCompositeIngredients(quantity, unit, name) ==
    IF includes(name, " and ")
    THEN LET parts == split(name, " and ")
         IN  [k \in 1..Len(parts) |-> Record(quantity, unit, normalizeName(trim(parts[k])))]
    ELSE << Record(quantity, unit, normalizeName(name)) >>

(***************************************************************************)
(* ingredientNormalizer.js: normalizeIngredient                            *)
(***************************************************************************)
RECURSIVE Gcd(_, _)
Gcd(a, b) == IF b = 0 THEN a ELSE Gcd(b, a % b)

RECURSIVE Pow10(_)
Pow10(n) == IF n = 0 THEN 1 ELSE 10 * Pow10(n - 1)

DigitOf ==
    ( "0" :> 0 @@ "1" :> 1 @@ "2" :> 2 @@ "3" :> 3 @@ "4" :> 4
    @@ "5" :> 5 @@ "6" :> 6 @@ "7" :> 7 @@ "8" :> 8 @@ "9" :> 9 )

\* the number written by a string of decimal digits
RECURSIVE DigitsValue(_)
DigitsValue(d) ==
    IF d = "" THEN 0
    ELSE 10 * DigitsValue(SubSeq(d, 1, Len(d) - 1)) + DigitOf[Ch(d, Len(d))]

\* parseFloat of a text matched by \d+(\.\d+)?, as a fraction in lowest terms
parseFloat(text) ==
    LET dot  == indexOfFrom(text, ".", 1)
        int  == IF dot = 0 THEN text ELSE SubSeq(text, 1, dot - 1)
        frac == IF dot = 0 THEN "" ELSE SubSeq(text, dot + 1, Len(text))
        n    == DigitsValue(int \o frac)
        d    == Pow10(Len(frac))
        g    == Gcd(n, d)
    IN  [num |-> n \div g, den |-> d \div g]

NoMatch == [matched |-> FALSE, m1 |-> "", m3 |-> "", m4 |-> ""]

\* t.match(/^(\d+(\.\d+)?)\s+(\S+)\s+(.+)$/): every quantifier is greedy and none
\* can give a character back to what follows it, so the match is the longest runs
matchLine(t) ==
    LET e1 == DigitRunEnd(t, 1)
        e2 == IF HasAt(t, ".", e1) /\ DigitRunEnd(t, e1 + 1) > e1 + 1
              THEN DigitRunEnd(t, e1 + 1) ELSE e1
        e3 == SpaceRunEnd(t, e2)
        e4 == NonSpaceRunEnd(t, e3)
        e5 == SpaceRunEnd(t, e4)
        m4 == SubSeq(t, e5, Len(t))
    IN  IF /\ e1 > 1
           /\ e3 > e2
           /\ e4 > e3
           /\ e5 > e4
           /\ e5 <= Len(t)
           /\ ~HasLineTerminator(m4)
        THEN [matched |-> TRUE, m1 |-> SubSeq(t, 1, e2 - 1),
              m3 |-> SubSeq(t, e3, e4 - 1), m4 |-> m4]
        ELSE NoMatch

\* a property the plain object UNIT_MAP inherits from Object.prototype under an
\* all-lower-case key: a function or an object, never a string (written here as
\* a text no unit token can equal, since tokens hold no space)
InheritedProperty(unit) ==
    IF unit = "constructor" THEN "[Function: Object]"
    ELSE IF unit = "__proto__" THEN "[Object: null prototype] {}"
    ELSE ""

\* a variant that never consults the table
convertUnit_NoTable(unit) == unit

\* UNIT_MAP[unit] || unit
convertUnit(unit) ==
    IF unit \in DOMAIN UNIT_MAP THEN UNIT_MAP[unit]
    ELSE IF InheritedProperty(unit) # "" THEN InheritedProperty(unit)
    ELSE unit

\* a variant that renames pinch to g and keeps the written quantity
convertPinch_KeepsQuantity(q) ==
    IF q.unit = "pinch" THEN [quantity |-> q.quantity, unit |-> "g"] ELSE q

\* if (unit === "pinch") { quantity = PINCH_IN_GRAMS; unit = "g"; }
convertPinch(q) ==
    IF q.unit = "pinch" THEN [quantity |-> PINCH_IN_GRAMS, unit |-> "g"] ELSE q

\* a variant that converts ml only when the name holds a liquid keyword
convertMl_OnlyLiquids(q, name) ==
    IF q.unit = "ml" /\ IsLiquid(toLowerCase(name))
    THEN [quantity |-> mlToGramsIfLiquid(q.quantity, toLowerCase(name)), unit |-> "g"]
    ELSE q

\* if (unit === "ml") { quantity = mlToGramsIfLiquid(...); unit = "g"; }
convertMl(q, name) ==
    IF q.unit = "ml"
    THEN [quantity |-> mlToGramsIfLiquid(q.quantity, toLowerCase(name)), unit |-> "g"]
    ELSE q

\* the body of normalizeIngredient after the line matched
convertMatched(match) ==
    LET name == match.m4
        q0 == [quantity |-> parseFloat(match.m1),
               unit |-> convertUnit(toLowerCase(match.m3))]
        q  == convertMl(convertPinch(q0), name)
        baseList == splitCompositeIngredients(q.quantity, q.unit, name)
    IN  [k \in 1..Len(baseList) |->
           Record(baseList[k].quantity, baseList[k].unit,
                  normalizeName(baseList[k].name))]

\* if (!match) return []
matchedOrEmpty(match) == IF ~match.matched THEN << >> ELSE convertMatched(match)

\* a variant that answers a line without a number with the bare name and an
\* implied quantity of 1
normalizeIngredient_BareName(raw) ==
    IF matchLine(trim(raw)).matched \/ trim(raw) = ""
    THEN matchedOrEmpty(matchLine(trim(raw)))
    ELSE << Record([num |-> 1, den |-> 1], "", normalizeName(raw)) >>

normalizeIngredient(raw) == matchedOrEmpty(matchLine(trim(raw)))

(***************************************************************************)
(* ingredientCorrector.js: the tables                                      *)
(***************************************************************************)
\* Object.entries(SYNONYMS), in insertion order; a value is a string, or for
\* "salt and pepper" an array of strings
CorrectorModule ==
    [ SYNONYMS |->
        << [k |-> "apple cider vinegar", v |-> <<"vinegar">>, isArray |-> FALSE],
           [k |-> "acv", v |-> <<"vinegar">>, isArray |-> FALSE],
           [k |-> "balsamic glaze", v |-> <<"balsamic vinegar">>, isArray |-> FALSE],
           [k |-> "olive oil extra virgin", v |-> <<"olive oil">>, isArray |-> FALSE],
           [k |-> "extra virgin olive oil", v |-> <<"olive oil">>, isArray |-> FALSE],
           [k |-> "soy milk", v |-> <<"soy milk">>, isArray |-> FALSE],
           [k |-> "soya milk", v |-> <<"soy milk">>, isArray |-> FALSE],
           [k |-> "maple syrup", v |-> <<"maple syrup">>, isArray |-> FALSE],
           [k |-> "nutritional yeast", v |-> <<"nutritional yeast">>, isArray |-> FALSE],
           [k |-> "smoked tofu", v |-> <<"tofu">>, isArray |-> FALSE],
           [k |-> "brussels sprouts", v |-> <<"brussels sprouts">>, isArray |-> FALSE],
           [k |-> "salt and pepper", v |-> <<"salt", "pepper">>, isArray |-> TRUE] >>,
      REMOVE_ADJECTIVES |->
        << "fresh", "raw", "organic", "smoked", "thick", "thin", "large", "small",
           "extra", "plain", "unsweetened", "chopped", "sliced", "diced", "minced",
           "shredded", "grated" >>,
      UNIT_MAP |->
        ( "tbs" :> "tbsp" @@ "tbspn" :> "tbsp" @@ "tbsp" :> "tbsp"
        @@ "tablespoon" :> "tbsp" @@ "tablespoons" :> "tbsp"
        @@ "tsp" :> "tsp" @@ "teaspoon" :> "tsp" @@ "teaspoons" :> "tsp"
        @@ "g" :> "g" @@ "gram" :> "g" @@ "grams" :> "g" @@ "kg" :> "kg"
        @@ "ml" :> "ml" @@ "milliliter" :> "ml" @@ "l" :> "l"
        @@ "cup" :> "cup" @@ "cups" :> "cup"
        @@ "pinch" :> "pinch" @@ "dash" :> "dash" @@ "clove" :> "clove"
        @@ "slice" :> "slice" @@ "pkg" :> "package" @@ "package" :> "package"
        @@ "oz" :> "oz" @@ "lb" :> "lb" ) ]

SYNONYMS == tables.corrector.SYNONYMS

CORRECTOR_REMOVE_ADJECTIVES == tables.corrector.REMOVE_ADJECTIVES

CORRECTOR_UNIT_MAP == tables.corrector.UNIT_MAP

(***************************************************************************)
(* ingredientCorrector.js: heuristicsForName, cleanupName                  *)
(***************************************************************************)
\* the unit Edamam understands for the name; "" stands for null
heuristicsForName(name) ==
    LET n == toLowerCase(name)
    IN  IF includes(n, "salt") \/ includes(n, "pepper") \/ includes(n, "spice") THEN "tsp"
        ELSE IF includes(n, "oil") \/ includes(n, "vinegar") \/ includes(n, "sauce") THEN "tbsp"
        ELSE IF includes(n, "milk") \/ includes(n, "water") \/ includes(n, "juice") THEN "cup"
        ELSE ""

\* the first entry of SYNONYMS from k on whose key s includes, 0 when none
RECURSIVE synonymFrom(_, _)
synonymFrom(s, k) ==
    IF k > Len(SYNONYMS) THEN 0
    ELSE IF includes(s, SYNONYMS[k].k) THEN k
    ELSE synonymFrom(s, k + 1)

\* the value of entry k of SYNONYMS for s, s itself when no key matched (k = 0):
\* a string (v of length 1, isArray FALSE) or an array of strings
synonymValue(s, k) ==
    IF k > 0 THEN [v |-> SYNONYMS[k].v, isArray |-> SYNONYMS[k].isArray]
    ELSE [v |-> <<s>>, isArray |-> FALSE]

synonymOf(s) == synonymValue(s, synonymFrom(s, 1))

cleanupName(rawName) ==
    synonymOf(trim(collapseSpaces(
        removeAdjectivesFrom(trim(toLowerCase(rawName)), CORRECTOR_REMOVE_ADJECTIVES, 1))))

(***************************************************************************)
(* ingredientCorrector.js: the regular expressions                         *)
(***************************************************************************)
\* [\d./]
IsQtyChar(c) == IsDigit(c) \/ c = "." \/ c = "/"

RECURSIVE QtyRunEnd(_, _)
QtyRunEnd(s, i) ==
    IF i <= Len(s) /\ IsQtyChar(Ch(s, i)) THEN QtyRunEnd(s, i + 1) ELSE i

RECURSIVE WordRunEnd(_, _)
WordRunEnd(s, i) ==
    IF i <= Len(s) /\ IsWordChar(Ch(s, i)) THEN WordRunEnd(s, i + 1) ELSE i

RECURSIVE LetterRunEnd(_, _)
LetterRunEnd(s, i) ==
    IF i <= Len(s) /\ IsLetter(Ch(s, i)) THEN LetterRunEnd(s, i + 1) ELSE i

\* / and /i.test(s)
testAnd(s) == \E i \in 1..Len(s) : HasAt(toLowerCase(s), " and ", i)

\* /\s+and\s+/i matches s at position q; the end (exclusive) of the match, else 0
andSeparatorAt(s, q) ==
    LET e1 == SpaceRunEnd(s, q)
        e2 == SpaceRunEnd(s, e1 + 3)
    IN  IF /\ e1 > q
           /\ e1 + 2 <= Len(s)
           /\ toLowerCase(SubSeq(s, e1, e1 + 2)) = "and"
           /\ e2 > e1 + 3
        THEN e2 ELSE 0

\* s.split(/\s+and\s+/i): p is where the current part starts, q where the
\* separator is looked for next
RECURSIVE splitAndFrom(_, _, _)
splitAndFrom(s, p, q) ==
    IF q > Len(s) THEN << SubSeq(s, p, Len(s)) >>
    ELSE LET e == andSeparatorAt(s, q)
         IN  IF e > 0 THEN << SubSeq(s, p, q - 1) >> \o splitAndFrom(s, e, e)
             ELSE splitAndFrom(s, p, q + 1)

splitAnd(s) == IF s = "" THEN << "" >> ELSE splitAndFrom(s, 1, 1)

\* the text from position i to the first line terminator (what .* matches)
RECURSIVE DotRunEnd(_, _)
DotRunEnd(s, i) ==
    IF i <= Len(s) /\ ~IsLineTerminator(Ch(s, i)) THEN DotRunEnd(s, i + 1) ELSE i

\* /^([\d./]+\s*\w*)\s+(.*)/ : the quantifiers are tried longest first, and the
\* first combination after which a whitespace character follows is the match.
\* Each operator gives the end (exclusive) of group 1, or 0 when nothing matches.
RECURSIVE firstTryWord(_, _, _)
firstTryWord(s, p, c) ==
    IF p + c <= Len(s) /\ IsSpace(Ch(s, p + c)) THEN p + c
    ELSE IF c = 0 THEN 0
    ELSE firstTryWord(s, p, c - 1)

\* \w* and the whitespace after it, from position p on
firstWordAt(s, p) == firstTryWord(s, p, WordRunEnd(s, p) - p)

RECURSIVE firstTrySpace(_, _, _)
firstTrySpace(s, p, b) ==
    IF firstWordAt(s, p + b) > 0 THEN firstWordAt(s, p + b)
    ELSE IF b = 0 THEN 0
    ELSE firstTrySpace(s, p, b - 1)

\* \s*\w* and the whitespace after it, from position p on
firstSpaceAt(s, p) == firstTrySpace(s, p, SpaceRunEnd(s, p) - p)

RECURSIVE firstTryQty(_, _)
firstTryQty(s, a) ==
    IF a = 0 THEN 0
    ELSE IF firstSpaceAt(s, 1 + a) > 0 THEN firstSpaceAt(s, 1 + a)
    ELSE firstTryQty(s, a - 1)

\* the groups of the match whose group 1 ends (exclusive) at e1
firstGroups(s, e1) ==
    IF e1 = 0 THEN [matched |-> FALSE, m1 |-> "", m2 |-> ""]
    ELSE [matched |-> TRUE, m1 |-> SubSeq(s, 1, e1 - 1),
          m2 |-> SubSeq(s, SpaceRunEnd(s, e1), DotRunEnd(s, SpaceRunEnd(s, e1)) - 1)]

firstMatch(s) == firstGroups(s, firstTryQty(s, QtyRunEnd(s, 1) - 1))

\* /^([\d./]+)?\s*([a-zA-Z]+)?\s*(.+)$/ and, with the first group required,
\* /^([\d./]+)\s*([a-zA-Z]+)?\s*(.+)$/ : the quantifiers are tried longest
\* first, an optional group is tried before it is skipped, and the first
\* combination that leaves a non-empty rest without line terminator is the
\* match. The result is <<end of group 1, start of group 2, end of group 2,
\* start of group 3>> (ends exclusive), or << >> when nothing matches.
RECURSIVE fullTryRest(_, _, _)
fullTryRest(s, p, d) ==
    IF p + d <= Len(s) /\ ~HasLineTerminator(SubSeq(s, p + d, Len(s))) THEN p + d
    ELSE IF d = 0 THEN 0
    ELSE fullTryRest(s, p, d - 1)

\* the second \s* and the rest, from position p on
fullRestAt(s, p) == fullTryRest(s, p, SpaceRunEnd(s, p) - p)

RECURSIVE fullTryLetters(_, _, _)
fullTryLetters(s, p, l) ==
    IF fullRestAt(s, p + l) > 0 THEN << p, p + l, fullRestAt(s, p + l) >>
    ELSE IF l = 0 THEN << >>
    ELSE fullTryLetters(s, p, l - 1)

\* the optional letters, the second \s* and the rest, from position p on
fullLettersAt(s, p) == fullTryLetters(s, p, LetterRunEnd(s, p) - p)

RECURSIVE fullTrySpace(_, _, _)
fullTrySpace(s, p, b) ==
    IF fullLettersAt(s, p + b) # << >> THEN fullLettersAt(s, p + b)
    ELSE IF b = 0 THEN << >>
    ELSE fullTrySpace(s, p, b - 1)

\* everything after group 1, from position p on
fullSpaceAt(s, p) == fullTrySpace(s, p, SpaceRunEnd(s, p) - p)

RECURSIVE fullTryQty(_, _, _)
fullTryQty(s, a, optional) ==
    IF a = 0 /\ ~optional THEN << >>
    ELSE IF fullSpaceAt(s, 1 + a) # << >> THEN << 1 + a >> \o fullSpaceAt(s, 1 + a)
    ELSE IF a = 0 THEN << >>
    ELSE fullTryQty(s, a - 1, optional)

\* m1, m2, m3 are the groups; an unmatched optional group is ""
fullGroups(s, r) ==
    IF r = << >> THEN [matched |-> FALSE, m1 |-> "", m2 |-> "", m3 |-> ""]
    ELSE [matched |-> TRUE,
          m1 |-> SubSeq(s, 1, r[1] - 1),
          m2 |-> SubSeq(s, r[2], r[3] - 1),
          m3 |-> SubSeq(s, r[4], Len(s))]

fullMatch(s, optional) == fullGroups(s, fullTryQty(s, QtyRunEnd(s, 1) - 1, optional))

\* how a call ends: with a returned value or with a thrown exception
Return(v) == [ok |-> TRUE, value |-> v]
Throw(e) == [ok |-> FALSE, value |-> e]

(***************************************************************************)
(* ingredientCorrector.js: parseRawIngredient                              *)
(***************************************************************************)
\* JavaScript values: strings, null and undefined
Str(x) == [t |-> "string", v |-> x]
Null == [t |-> "null", v |-> ""]
Undefined == [t |-> "undefined", v |-> ""]
IsNullish(val) == val.t \in {"null", "undefined"}

\* a ?? b
Coalesce(a, b) == IF IsNullish(a) THEN b ELSE a

\* UNIT_MAP[unitRaw] || unitRaw || heuristicsForName(nameRaw) || "", as the
\* template string prints it; the plain object inherits "constructor"
correctorUnit(unitRaw, nameRaw) ==
    IF unitRaw \in DOMAIN CORRECTOR_UNIT_MAP THEN CORRECTOR_UNIT_MAP[unitRaw]
    ELSE IF unitRaw = "constructor" THEN "function Object() { [native code] }"
    ELSE IF unitRaw # "" THEN unitRaw
    ELSE heuristicsForName(nameRaw)

\* heuristicsForName(p) || "tsp"
heuristicUnitOr(h, default) == IF h # "" THEN h ELSE default

\* the strings of the composite branch: the first part keeps the quantity
\* token, each later part gets "1" and a unit guessed from its name
compositeParts(qtyToken, parts) ==
    [idx \in 1..Len(parts) |->
        IF idx = 1 THEN qtyToken \o " " \o trim(parts[idx])
        ELSE "1 " \o heuristicUnitOr(heuristicsForName(parts[idx]), "tsp")
                  \o " " \o trim(parts[idx])]

Parsed(list) == [thrown |-> FALSE, isNull |-> FALSE, list |-> list]

\* p => p.trim() over the parts
trimAll(parts) == [k \in 1..Len(parts) |-> trim(parts[k])]

\* the branch of a raw that holds " and ", fm being its firstMatch
parseComposite(raw, fm) ==
    IF fm.matched THEN Parsed(compositeParts(fm.m1, splitAnd(fm.m2)))
    ELSE Parsed(trimAll(splitAnd(raw)))

\* a variant that gives up on a line without a leading quantity
parsePlain_RejectsBareName(raw, m) ==
    IF m.matched
    THEN Parsed(<< trim(m.m1 \o " " \o correctorUnit(toLowerCase(m.m2), m.m3)
                        \o " " \o m.m3) >>)
    ELSE [thrown |-> FALSE, isNull |-> TRUE, list |-> << >>]

\* the branch of a raw without " and ", m being its fullMatch
parsePlain(raw, m) ==
    IF m.matched
    THEN Parsed(<< trim(m.m1 \o " " \o correctorUnit(toLowerCase(m.m2), m.m3)
                        \o " " \o m.m3) >>)
    ELSE Parsed(<< raw >>)

\* the body of parseRawIngredient after raw was trimmed
parseTrimmed(raw) ==
    IF raw = "" THEN [thrown |-> FALSE, isNull |-> TRUE, list |-> << >>]
    ELSE IF testAnd(raw) THEN parseComposite(raw, firstMatch(raw))
    ELSE parsePlain(raw, fullMatch(raw, FALSE))

\* recv.toString().trim() and the rest; toString() throws on null and undefined
parseReceiver(recv) ==
    IF IsNullish(recv) THEN [thrown |-> TRUE, isNull |-> FALSE, list |-> << >>]
    ELSE parseTrimmed(trim(recv.v))

\* a variant without the ?? "" guard: toString() is called on raw itself
parseRawIngredient_NoNullGuard(rawValue) == parseReceiver(rawValue)

\* raw = (raw ?? "").toString().trim(); ...
parseRawIngredient(rawValue) == parseReceiver(Coalesce(rawValue, Str("")))

(***************************************************************************)
(* ingredientCorrector.js: normalizeIngredients                            *)
(***************************************************************************)
\* p.replace(pattern, replacement) with a string pattern: the first occurrence
RECURSIVE replaceFirstFrom(_, _, _, _)
replaceFirstFrom(s, pattern, replacement, i) ==
    IF i + Len(pattern) - 1 > Len(s) THEN s
    ELSE IF HasAt(s, pattern, i)
    THEN SubSeq(s, 1, i - 1) \o replacement \o SubSeq(s, i + Len(pattern), Len(s))
    ELSE replaceFirstFrom(s, pattern, replacement, i + 1)

replaceFirst(s, pattern, replacement) == replaceFirstFrom(s, pattern, replacement, 1)

Diagnostic(original, normalized, reason) ==
    [original |-> original, normalized |-> normalized, reason |-> reason]

\* m[3] || "" when p matched, p itself otherwise
namePartOf(p, m) == IF m.matched THEN m.m3 ELSE p

\* the strings rebuilt from p, one per cleaned name
rebuildAll(p, namePart, names) ==
    [k \in 1..Len(names) |-> replaceFirst(p, namePart, names[k])]

\* what the inner loop pushes for the strings rebuilt from one parsed string
pushed(rawValue, rebuilt, reason) ==
    [normalized |-> rebuilt,
     diagnostics |-> [k \in 1..Len(rebuilt) |->
                         Diagnostic(rawValue, Str(rebuilt[k]), reason)]]

rebuildWith(rawValue, p, namePart, cleaned) ==
    pushed(rawValue, rebuildAll(p, namePart, cleaned.v),
           IF cleaned.isArray THEN "synonym-split" ELSE "normalized")

rebuildName(rawValue, p, namePart) ==
    rebuildWith(rawValue, p, namePart, cleanupName(namePart))

\* the body of the inner loop for one parsed string p of the entry rawValue
processParsed(rawValue, p) == rebuildName(rawValue, p, namePartOf(p, fullMatch(p, TRUE)))

\* two pieces of output, one after the other
Append2(a, b) ==
    [normalized |-> a.normalized \o b.normalized,
     diagnostics |-> a.diagnostics \o b.diagnostics]

NoOutput == [normalized |-> << >>, diagnostics |-> << >>]

RECURSIVE processParsedFrom(_, _, _)
processParsedFrom(rawValue, list, k) ==
    IF k > Len(list) THEN NoOutput
    ELSE Append2(processParsed(rawValue, list[k]), processParsedFrom(rawValue, list, k + 1))

\* the body of the outer loop for one entry, parsed being its parse
processEntry(raw, parsed) ==
    IF parsed.isNull \/ Len(parsed.list) = 0
    THEN [normalized |-> << >>, diagnostics |-> << Diagnostic(raw, Null, "unparsed") >>]
    ELSE processParsedFrom(raw, parsed.list, 1)

\* the output of one entry followed by the output of the entries after it;
\* an exception thrown for either ends the call
entryThenRest(raw, parsed, rest) ==
    IF parsed.thrown \/ rest.thrown
    THEN [thrown |-> TRUE, normalized |-> << >>, diagnostics |-> << >>]
    ELSE [thrown |-> FALSE,
          normalized |-> processEntry(raw, parsed).normalized \o rest.normalized,
          diagnostics |-> processEntry(raw, parsed).diagnostics \o rest.diagnostics]

\* the outer loop from entry i on; thrown when parseRawIngredient threw
RECURSIVE processEntriesFrom(_, _)
processEntriesFrom(rawIngredients, i) ==
    IF i > Len(rawIngredients)
    THEN [thrown |-> FALSE, normalized |-> << >>, diagnostics |-> << >>]
    ELSE entryThenRest(rawIngredients[i], parseRawIngredient(rawIngredients[i]),
                       processEntriesFrom(rawIngredients, i + 1))

\* a variant whose key is the entry itself, not its lower-cased form
RECURSIVE dedupeFrom_CaseSensitive(_, _, _)
dedupeFrom_CaseSensitive(normalized, k, seen) ==
    IF k > Len(normalized) THEN << >>
    ELSE IF normalized[k] \in seen THEN dedupeFrom_CaseSensitive(normalized, k + 1, seen)
    ELSE << normalized[k] >>
            \o dedupeFrom_CaseSensitive(normalized, k + 1, seen \cup {normalized[k]})

\* dedupe and preserve order: seen holds the lower-cased keys met before k
RECURSIVE dedupeFrom(_, _, _)
dedupeFrom(normalized, k, seen) ==
    IF k > Len(normalized) THEN << >>
    ELSE LET key == toLowerCase(normalized[k])
         IN  IF key \in seen THEN dedupeFrom(normalized, k + 1, seen)
             ELSE << normalized[k] >> \o dedupeFrom(normalized, k + 1, seen \cup {key})

\* return { normalized: unique, diagnostics }
finish(all) ==
    IF all.thrown THEN Throw("TypeError")
    ELSE Return([normalized |-> dedupeFrom(all.normalized, 1, {}),
                 diagnostics |-> all.diagnostics])

normalizeIngredients(rawIngredients) == finish(processEntriesFrom(rawIngredients, 1))

(***************************************************************************)
(* The calls: the arguments a caller can pass                              *)
(***************************************************************************)
MaxWords == 3

Words == {"salt", "and", "Fresh"}

\* names that the word list does not build
ExtraNames ==
    { <<"extra", "virgin", "olive", "oil">>, <<"extraordinary", "squash">>,
      <<"smoked", "tofu">>, <<"smoked", "tofu", "salad">>,
      <<"apple", "cider", "vinegar">>,
      <<"soy", "milk">>, <<"balsamic", "soy", "milk">>,
      <<"salt", "and", "pepper">>, <<"salt", "and", "", "and", "pepper">>,
      <<"salt", "And", "pepper">>, <<"salt", "AND", "milk">>,
      <<"salt", "and", "milk">>, <<"Fresh", "milk">>, << >> }

Names == UNION {[1..n -> Words] : n \in 1..MaxWords} \cup ExtraNames

QtyToks == {"1", "2.5", "100", ""}

UnitToks == {"pinch", "Pinch", "ml", "ML", "milliliters", "tbsp", "kg",
             "constructor", ""}

Layouts == {"plain", "padded"}

MaxBatch == 2

\* the entries an array of lines can hold
Entries ==
    { Null, Undefined, Str(""), Str("  "), Str("salt"), Str("2 eggs"),
      Str("1 pinch salt and pepper"), Str("1 Pinch salt and pepper"),
      Str("100 ml soy milk"),
      Str("100 ML Soy Milk "), Str("1 tbsp Fresh salt And olive oil"),
      Str("1 raw raw"), Str("1 raw Raw"), Str("2 cups extra virgin olive oil"),
      Str("2 g tofu and soy milk and rice and olive oil salt"), Str("2 eggs and milk"),
      Str("a-b\nc") }

Batches == UNION {[1..n -> Entries] : n \in 0..MaxBatch}

\* the pieces that are not empty, joined by sep
RECURSIVE Join(_, _)
Join(pieces, sep) ==
    IF pieces = << >> THEN ""
    ELSE IF Len(pieces) = 1 THEN pieces[1]
    ELSE pieces[1] \o sep \o Join(Tail(pieces), sep)

NonEmpty(pieces) == SelectSeq(pieces, LAMBDA x : x # "")

NameText(lay, ws) == Join(ws, IF lay = "plain" THEN " " ELSE "  ")

\* the line as the caller wrote it
LineText(lay, q, u, ws) ==
    IF lay = "plain"
    THEN Join(NonEmpty(<<q, u, NameText(lay, ws)>>), " ")
    ELSE " " \o Join(NonEmpty(<<q, u, NameText(lay, ws)>>), " \t") \o " "

\* no token call, no retry loop, no API invocation is in progress
NoCall ==
    [pc |-> "idle", now |-> 0, seenToken |-> 0, seenExpiry |-> 0, cached |-> FALSE,
     requested |-> FALSE, value |-> 0]

NoApi ==
    [pc |-> "idle", isRetry |-> FALSE, requests |-> 0, tokens |-> << >>,
     statuses |-> << >>, issuedAtReset |-> 0]

NoToken == [token |-> 0, expiresAt |-> 0]

NoPayload == [cacheHit |-> FALSE, normalizedIngredients |-> << >>, calories |-> 0,
              mode |-> "none", items |-> << >>]

NoAnalyze ==
    [pc |-> "idle", valid |-> FALSE, key |-> << >>, normalized |-> << >>, divisor |-> 1,
     items |-> << >>, calls |-> 0, cacheHit |-> FALSE, payload |-> NoPayload]

NoRoute ==
    [pc |-> "idle", valid |-> FALSE, lines |-> << >>, sent |-> << >>, results |-> << >>,
     notFound |-> << >>]

\* the Edamam servers are not running
NoEdamam ==
    /\ cache = << >>
    /\ analyze = NoAnalyze
    /\ route = NoRoute

\* the library is used on its own: no server runs
NoServer ==
    /\ server = "library"
    /\ keys = FALSE
    /\ clock = 0
    /\ issued = 0
    /\ handled = 0
    /\ response = "idle"
    /\ fatSecretToken = 0
    /\ fatSecretTokenExpiresAt = 0
    /\ lookups = << >>
    /\ accessToken = 0
    /\ tokenExpiryTime = 0
    /\ tokenCall = NoCall
    /\ fetches = << >>
    /\ api = NoApi
    /\ lastHandled = NoToken
    /\ NoEdamam

\* the modules were loaded; no call was made yet
Loaded ==
    /\ tables = [normalizer |-> NormalizerModule, corrector |-> CorrectorModule]
    /\ memo = << >>
    /\ calls = 1
    /\ pc = "call"
    /\ result = Return("")

Init ==
    /\ Loaded
    /\ NoServer
    /\ \/ /\ fn = "normalizeIngredients"
          /\ layout = "plain"
          /\ qtyTok = ""
          /\ unitTok = ""
          /\ nameWords = << >>
          /\ \/ argType = "array" /\ batch \in Batches
             \/ argType \in {"null", "undefined"} /\ batch = << >>
       \/ /\ fn = "normalizeIngredient"
          /\ batch = << >>
          /\ \/ /\ argType = "string"
                /\ layout \in Layouts
                /\ qtyTok \in QtyToks
                /\ unitTok \in UnitToks
                /\ nameWords \in Names
             \/ /\ argType \in {"null", "undefined"}
                /\ layout = "plain"
                /\ qtyTok = ""
                /\ unitTok = ""
                /\ nameWords = << >>
       \/ /\ fn = "normalizeName"
          /\ batch = << >>
          /\ qtyTok = ""
          /\ unitTok = ""
          /\ \/ /\ argType = "string"
                /\ layout \in Layouts
                /\ nameWords \in Names
             \/ /\ argType \in {"null", "undefined"}
                /\ layout = "plain"
                /\ nameWords = << >>

\* normalizeIngredient(raw): raw.trim() throws on a raw that is no string
CallNormalizeIngredient ==
    /\ pc = "call"
    /\ fn = "normalizeIngredient"
    /\ result' = IF argType = "string"
                 THEN Return(normalizeIngredient(LineText(layout, qtyTok, unitTok, nameWords)))
                 ELSE Throw("TypeError")
    /\ pc' = "done"
    /\ UNCHANGED <<args, tables, memo, calls>>
    /\ UNCHANGED serverVars

\* a variant that takes the adjectives off the stoplist as it applies them
CallNormalizeName_ConsumesStoplist ==
    /\ pc = "call"
    /\ fn = "normalizeName"
    /\ result' = IF argType = "string"
                 THEN Return(normalizeName(LineText(layout, "", "", nameWords)))
                 ELSE Throw("TypeError")
    /\ tables' = [tables EXCEPT !.normalizer.REMOVE_ADJECTIVES = << >>]
    /\ pc' = "done"
    /\ UNCHANGED <<args, memo, calls>>
    /\ UNCHANGED serverVars

\* normalizeName(name): name.toLowerCase() throws on a name that is no string
CallNormalizeName ==
    /\ pc = "call"
    /\ fn = "normalizeName"
    /\ result' = IF argType = "string"
                 THEN Return(normalizeName(LineText(layout, "", "", nameWords)))
                 ELSE Throw("TypeError")
    /\ pc' = "done"
    /\ UNCHANGED <<args, tables, memo, calls>>
    /\ UNCHANGED serverVars

\* normalizeIngredients(rawIngredients): for...of throws on a value that is
\* not iterable
CallNormalizeIngredients ==
    /\ pc = "call"
    /\ fn = "normalizeIngredients"
    /\ result' = IF argType = "array" THEN normalizeIngredients(batch)
                 ELSE Throw("TypeError")
    /\ pc' = "done"
    /\ UNCHANGED <<args, tables, memo, calls>>
    /\ UNCHANGED serverVars

Next ==
    \/ CallNormalizeIngredient
    \/ CallNormalizeName
    \/ CallNormalizeIngredients

Spec == Init /\ [][Next]_vars

(***************************************************************************)
(* A caller that makes several calls, one after the other, on the same     *)
(* loaded modules                                                          *)
(***************************************************************************)
MaxCalls == 3

\* the calls the caller chooses from: <<fn, argType, layout, qtyTok, unitTok,
\* nameWords, batch>>
RepeatCalls ==
    { <<"normalizeName", "string", "plain", "", "", <<"Fresh", "salt">>, << >> >>,
      <<"normalizeName", "string", "padded", "", "",
        <<"extra", "virgin", "olive", "oil">>, << >> >>,
      <<"normalizeIngredient", "string", "plain", "1", "pinch",
        <<"Fresh", "salt", "and", "salt">>, << >> >>,
      <<"normalizeIngredient", "string", "plain", "100", "ML", <<"soy", "milk">>, << >> >>,
      <<"normalizeIngredients", "array", "plain", "", "", << >>,
        << Str("1 tbsp Fresh salt And olive oil"), Str("100 ML Soy Milk ") >> >>,
      <<"normalizeIngredients", "array", "plain", "", "", << >>,
        << Str("1 pinch salt and pepper"), Null >> >> }

InitRepeat ==
    /\ Loaded
    /\ NoServer
    /\ \E a \in RepeatCalls :
          /\ fn = a[1]
          /\ argType = a[2]
          /\ layout = a[3]
          /\ qtyTok = a[4]
          /\ unitTok = a[5]
          /\ nameWords = a[6]
          /\ batch = a[7]

\* the caller notes the answer and makes its next call
CallAgain ==
    /\ pc = "done"
    /\ calls < MaxCalls
    /\ memo' = IF args \in DOMAIN memo THEN memo ELSE memo @@ (args :> result)
    /\ calls' = calls + 1
    /\ \E a \in RepeatCalls :
          /\ fn' = a[1]
          /\ argType' = a[2]
          /\ layout' = a[3]
          /\ qtyTok' = a[4]
          /\ unitTok' = a[5]
          /\ nameWords' = a[6]
          /\ batch' = a[7]
    /\ pc' = "call"
    /\ result' = Return("")
    /\ UNCHANGED tables
    /\ UNCHANGED serverVars

NextRepeat ==
    \/ Next
    \/ CallAgain

SpecRepeat == InitRepeat /\ [][NextRepeat]_vars

(***************************************************************************)
(* What the caller wrote, read off the pieces of the line (not off the     *)
(* parser): the vocabulary of the properties below                         *)
(***************************************************************************)
\* the numbers the quantity texts write, as fractions in lowest terms
QtyWritten ==
    ( "1" :> [num |-> 1, den |-> 1] @@ "2.5" :> [num |-> 5, den |-> 2]
    @@ "100" :> [num |-> 100, den |-> 1] )

\* the second token of the line: the unit text, or the first word of the name
\* when the caller wrote no unit
UnitWritten ==
    IF unitTok # "" THEN unitTok
    ELSE IF nameWords # << >> THEN nameWords[1] ELSE ""

\* the text after the second token
NameWritten ==
    NameText(layout, IF unitTok # "" \/ nameWords = << >> THEN nameWords ELSE Tail(nameWords))

\* the call was normalizeIngredient on a string, and it returned
Normalized == fn = "normalizeIngredient" /\ pc = "done" /\ argType = "string"

\* the line has the shape <number> <unit> <name>
Accepted ==
    /\ Normalized
    /\ qtyTok \in DOMAIN QtyWritten
    /\ UnitWritten # ""
    /\ NameWritten # ""

Records == result.value

CanonicalUnits == {"tablespoon", "teaspoon", "g", "ml", "cup", "handful"}

C3_PinchIsThreeTenths ==
    /\ (Accepted /\ toLowerCase(UnitWritten) = "pinch")
          => /\ Records # << >>
             /\ \A k \in 1..Len(Records) :
                   /\ Records[k].unit = "g"
                   /\ Records[k].quantity = [num |-> 3, den |-> 10]
    /\ (Normalized /\ layout = "plain" /\ qtyTok = "1" /\ unitTok = "pinch"
          /\ nameWords = <<"salt">>)
          => Records = << [quantity |-> [num |-> 3, den |-> 10], unit |-> "g",
                           name |-> "salt"] >>

C3_Witness ==
    /\ Accepted
    /\ qtyTok = "2.5"
    /\ unitTok = "Pinch"
    /\ Records # << >>
    /\ Records[1].quantity = [num |-> 3, den |-> 10]

RECURSIVE CountAnd(_, _)
CountAnd(s, i) ==
    IF i + 4 > Len(s) THEN 0
    ELSE IF SubSeq(s, i, i + 4) = " and " THEN 1 + CountAnd(s, i + 5)
    ELSE CountAnd(s, i + 1)

\* C5: an accepted line yields one record more than its name has
\* non-overlapping occurrences of the lower-case " and " (one record when it
\* has none; "And" and "AND" do not split); "1 pinch salt and pepper" yields
\* two records, named salt and pepper.
C5_SplitCount ==
    /\ Accepted => Len(Records) = CountAnd(NameWritten, 1) + 1
    /\ (Accepted /\ qtyTok = "1" /\ unitTok = "pinch"
          /\ nameWords = <<"salt", "and", "pepper">>)
          => /\ Len(Records) = 2
             /\ Records[1].name = "salt"
             /\ Records[2].name = "pepper"

\* a name with two occurrences gave three records
C5_Witness ==
    /\ Accepted
    /\ CountAnd(NameWritten, 1) = 2
    /\ Len(Records) = 3

\* C6: all records of one line carry the same quantity and the same unit, the
\* line's quantity and unit after canonicalization and pinch/ml conversion.
C6_PartsInherit ==
    Accepted =>
        LET q == convertMl(convertPinch([quantity |-> QtyWritten[qtyTok],
                                         unit |-> convertUnit(toLowerCase(UnitWritten))]),
                           NameWritten)
        IN  \A k \in 1..Len(Records) :
                /\ Records[k].quantity = q.quantity
                /\ Records[k].unit = q.unit

\* a split line whose later part names a liquid kept the line's kg
C6_Witness ==
    /\ Accepted
    /\ qtyTok = "2.5"
    /\ unitTok = "kg"
    /\ nameWords = <<"salt", "and", "milk">>
    /\ Len(Records) = 2
    /\ Records[2] = [quantity |-> [num |-> 5, den |-> 2], unit |-> "kg", name |-> "milk"]

StoplistAdjectives ==
    {"fresh", "raw", "organic", "smoked", "thick", "thin", "large", "small",
     "extra", "extra virgin", "virgin", "plain", "unsweetened"}

\* w stands in s as a whole word: neither neighbour is a letter, digit or _
HoldsWord(s, w) ==
    \E i \in 1..Len(s) :
        /\ i + Len(w) - 1 <= Len(s)
        /\ SubSeq(s, i, i + Len(w) - 1) = w
        /\ (i = 1 \/ Ch(s, i - 1) \notin WordChars)
        /\ (i + Len(w) > Len(s) \/ Ch(s, i + Len(w)) \notin WordChars)

CleanName(s) ==
    /\ \A i \in 1..Len(s) : Ch(s, i) \notin UpperChars
    /\ s = "" \/ (~IsSpace(Ch(s, 1)) /\ ~IsSpace(Ch(s, Len(s))))
    /\ \A w \in StoplistAdjectives : ~HoldsWord(s, w)

\* C7: every record's name, and every string normalizeName returns, is
\* lower-case, has no whitespace at either end and holds no stoplist adjective
\* as a whole word.
C7_NamesAreClean ==
    /\ Normalized => \A k \in 1..Len(Records) : CleanName(Records[k].name)
    /\ (fn = "normalizeName" /\ pc = "done" /\ argType = "string")
          => result.ok /\ CleanName(result.value)

\* a padded, capitalised name with an adjective was cleaned
C7_Witness ==
    /\ fn = "normalizeName"
    /\ pc = "done"
    /\ layout = "padded"
    /\ nameWords = <<"Fresh", "salt", "Fresh">>
    /\ result.value = "salt"

\* C8: name cleaning is idempotent: cleaning a cleaned name again returns it
\* unchanged, for the strings normalizeName returns and for the record names
\* that normalizeIngredient cleans a second time.
C8_CleaningIsIdempotent ==
    /\ (fn = "normalizeName" /\ pc = "done" /\ argType = "string")
          => normalizeName(result.value) = result.value
    /\ Accepted =>
          LET q == convertMl(convertPinch([quantity |-> QtyWritten[qtyTok],
                                           unit |-> convertUnit(toLowerCase(UnitWritten))]),
                             NameWritten)
          IN  Records = splitCompositeIngredients(q.quantity, q.unit, NameWritten)

\* a name that the first cleaning changed
C8_Witness ==
    /\ fn = "normalizeName"
    /\ pc = "done"
    /\ nameWords = <<"salt", "Fresh", "salt">>
    /\ result.value = "salt salt"

\* C9 (as claimed): adjective stripping alone does not turn "extra virgin
\* olive oil" into "olive oil".
C9_NotOliveOil ==
    (fn = "normalizeName" /\ pc = "done" /\ layout = "plain"
       /\ nameWords = <<"extra", "virgin", "olive", "oil">>)
        => result.value # "olive oil"

\* C9 (amended): normalizeName("extra virgin olive oil") is "olive oil", by
\* adjective stripping alone: no fallback rule applies to the stripped text.
C9_StrippedToOliveOil ==
    (fn = "normalizeName" /\ pc = "done" /\ argType = "string"
       /\ nameWords = <<"extra", "virgin", "olive", "oil">>)
        => /\ result = Return("olive oil")
           /\ specialFallback("olive oil") = "olive oil"
           /\ \A fb \in {"soy milk", "apple cider vinegar", "balsamic", "smoked tofu"} :
                 ~includes(toLowerCase(LineText(layout, "", "", nameWords)), fb)

C9_Witness ==
    /\ fn = "normalizeName"
    /\ pc = "done"
    /\ layout = "plain"
    /\ nameWords = <<"extra", "virgin", "olive", "oil">>
    /\ result.value = "olive oil"

\* v is a list: a finite sequence
IsList(v) == DOMAIN v = 1..Len(v)

\* C10: the normalizer never throws on malformed input: normalizeIngredient
\* returns a (possibly empty) list of records for every string, and
\* normalizeIngredients returns a result with a list of normalized entries for
\* every array of lines, null and blank entries included, that list being empty
\* for the empty array.
C10_NeverThrows ==
    /\ Normalized
          => /\ result.ok
             /\ IsList(Records)
             /\ \A k \in 1..Len(Records) :
                   DOMAIN Records[k] = {"quantity", "unit", "name"}
    /\ (fn = "normalizeIngredients" /\ pc = "done" /\ argType = "array")
          => /\ result.ok
             /\ IsList(result.value.normalized)
             /\ batch = << >> => result.value.normalized = << >>

\* an array of a null and a blank entry was answered with an empty list and
\* two diagnostics
C10_Witness ==
    /\ fn = "normalizeIngredients"
    /\ pc = "done"
    /\ batch = << Null, Str("  ") >>
    /\ result.ok
    /\ result.value.normalized = << >>
    /\ Len(result.value.diagnostics) = 2

(***************************************************************************)
(* normalizeIngredients: what the loops produced, read off the diagnostics *)
(***************************************************************************)
\* the call was normalizeIngredients on an array, and it returned
Corrected == fn = "normalizeIngredients" /\ pc = "done" /\ argType = "array" /\ result.ok

Unique == result.value.normalized

\* the diagnostics of the strings that were pushed, in the order of the pushes
Pushes == SelectSeq(result.value.diagnostics, LAMBDA d : d.normalized # Null)

\* the strings produced from the input lines, in the order they were produced
Produced == [k \in 1..Len(Pushes) |-> Pushes[k].normalized.v]

\* the places of Produced that hold the first of the entries equal to them
\* without regard to case
FirstPlaces ==
    { i \in 1..Len(Produced) :
        \A j \in 1..(i - 1) : toLowerCase(Produced[j]) # toLowerCase(Produced[i]) }

\* C11: the normalized list of normalizeIngredients holds no two entries that
\* are equal without regard to case; of the entries produced that are equal in
\* that sense only the first is kept, and the kept entries stand in the order
\* in which they were first produced.
C11_DedupeFirstWins ==
    Corrected
       => /\ \A i, j \in 1..Len(Unique) :
                i # j => toLowerCase(Unique[i]) # toLowerCase(Unique[j])
          /\ Len(Unique) = Cardinality(FirstPlaces)
          /\ \A i \in FirstPlaces :
                Unique[Cardinality({j \in FirstPlaces : j <= i})] = Produced[i]

\* two lines produced "1 pinch salt" and "1 Pinch salt"; the first was kept
C11_Witness ==
    /\ Corrected
    /\ batch = << Str("1 pinch salt and pepper"), Str("1 Pinch salt and pepper") >>
    /\ Produced = << "1 pinch salt", "1 tsp pepper", "1 Pinch salt", "1 tsp pepper" >>
    /\ Unique = << "1 pinch salt", "1 tsp pepper" >>

\* the two lines of the batch differ only in letter case and in leading or
\* trailing whitespace
CaseVariants ==
    /\ Len(batch) = 2
    /\ batch[1].t = "string"
    /\ batch[2].t = "string"
    /\ trim(batch[1].v) # ""
    /\ toLowerCase(trim(batch[1].v)) = toLowerCase(trim(batch[2].v))

\* C12: two input lines that differ only in letter case and in leading or
\* trailing whitespace contribute a single entry: the second line adds nothing
\* to the normalized output that the first line alone yields.
C12_VariantsCollapse ==
    (Corrected /\ CaseVariants)
       => Unique = normalizeIngredients(<< batch[1] >>).value.normalized

NumberThenName ==
    /\ Normalized
    /\ qtyTok \in DOMAIN QtyWritten
    /\ unitTok = ""
    /\ nameWords # << >>
    /\ \A k \in 1..Len(nameWords) :
          nameWords[k] # "" /\ toLowerCase(nameWords[k]) \notin DOMAIN UNIT_MAP

\* C14: a line made of a number followed by a name with no unit word parses as
\* a quantified ingredient with that quantity, an empty unit and the whole
\* remaining text as its name: normalizeIngredient does not reject it and takes
\* no word of the name as the unit, and normalizeIngredients keeps the name of
\* "2 eggs" whole.
C14_NumberThenName ==
    /\ NumberThenName
          => /\ result.ok
             /\ Records # << >>
             /\ \A k \in 1..Len(Records) :
                   Records[k].quantity = QtyWritten[qtyTok] /\ Records[k].unit = ""
    /\ (Corrected /\ batch = << Str("2 eggs") >>)
          => /\ Len(Unique) = 1
             /\ HasAt(Unique[1], "2", 1)
             /\ includes(Unique[1], "eggs")

\* C15: a line whose unit token is not a key of the unit table is not an error:
\* normalizeIngredient returns records whose unit is that token, lower-cased
\* and otherwise unchanged, and whose quantity is the quantity written.
C15_UnknownUnitVerbatim ==
    (Accepted /\ toLowerCase(UnitWritten) \notin DOMAIN UNIT_MAP)
       => /\ result.ok
          /\ Records # << >>
          /\ \A k \in 1..Len(Records) :
                /\ Records[k].unit = toLowerCase(UnitWritten)
                /\ Records[k].quantity = QtyWritten[qtyTok]

\* the line as normalizeIngredient received it, trimmed
TrimmedLine == trim(LineText(layout, qtyTok, unitTok, nameWords))

\* C16: normalizeIngredient returns the empty list, and no bare-name record
\* with an implied quantity, for every line that after trimming does not start
\* with a number.
C16_NoNumberNoRecord ==
    (Normalized /\ (TrimmedLine = "" \/ ~IsDigit(Ch(TrimmedLine, 1))))
       => result = Return(<< >>)

\* "tbsp salt" was answered with the empty list
C16_Witness ==
    /\ Normalized
    /\ qtyTok = ""
    /\ unitTok = "tbsp"
    /\ nameWords = << "salt" >>
    /\ TrimmedLine = "tbsp salt"
    /\ result = Return(<< >>)

\* the words the caller wrote, lower-cased
LowerWords == [k \in 1..Len(nameWords) |-> toLowerCase(nameWords[k])]

\* the name the caller wrote without its stoplist words, lower-cased, with one
\* space between the words that remain
WordsKept ==
    Join(SelectSeq(LowerWords, LAMBDA w : w # "" /\ w \notin StoplistAdjectives), " ")

FallbackKeys == {"soy milk", "apple cider vinegar", "balsamic", "smoked tofu"}

\* C17: the name cleaner removes a stoplist adjective only where it stands as
\* a whole word ("extraordinary" is kept intact); when no fallback rule
\* matches, normalizeName returns exactly the lower-cased input with the
\* whole-word adjectives removed, whitespace runs collapsed to one space and
\* the ends trimmed.
C17_WholeWordsOnly ==
    (/\ fn = "normalizeName"
     /\ pc = "done"
     /\ argType = "string"
     /\ \A key \in FallbackKeys : ~includes(WordsKept, key))
       => result = Return(WordsKept)

\* "extraordinary squash", written with padding, came back whole
C17_Witness ==
    /\ fn = "normalizeName"
    /\ pc = "done"
    /\ layout = "padded"
    /\ nameWords = << "extraordinary", "squash" >>
    /\ result = Return("extraordinary squash")

\* the fallback rules in their fixed order
FallbackRules ==
    << [key |-> "soy milk", value |-> "soy milk"],
       [key |-> "apple cider vinegar", value |-> "vinegar"],
       [key |-> "balsamic", value |-> "balsamic vinegar"],
       [key |-> "smoked tofu", value |-> "tofu"] >>

\* the places of the rules whose key the adjective-stripped name contains
RulesMatching == { k \in 1..Len(FallbackRules) : includes(WordsKept, FallbackRules[k].key) }

\* C18: when the adjective-stripped name matches more than one fallback rule,
\* normalizeName returns the value of the rule that comes first in the order
\* soy milk, apple cider vinegar, balsamic, smoked tofu: a name that contains
\* both "balsamic" and "soy milk" returns "soy milk".
C18_FirstRuleWins ==
    (fn = "normalizeName" /\ pc = "done" /\ argType = "string" /\ RulesMatching # {})
       => \E k \in RulesMatching :
             /\ \A j \in RulesMatching : k <= j
             /\ result = Return(FallbackRules[k].value)

\* "balsamic soy milk" matched the first and the third rule and got the first
C18_Witness ==
    /\ fn = "normalizeName"
    /\ pc = "done"
    /\ nameWords = << "balsamic", "soy", "milk" >>
    /\ RulesMatching = {1, 3}
    /\ result = Return("soy milk")

\* C19: every entry of the name tables takes effect on the names it describes:
\* normalizeName returns "tofu" for every name that contains "smoked tofu", and
\* cleanupName turns a name that contains "extra virgin olive oil" into
\* "olive oil", so that "2 cups extra virgin olive oil" comes back as
\* "2 cup olive oil".
C19_TableEntriesTakeEffect ==
    /\ (/\ fn = "normalizeName"
        /\ pc = "done"
        /\ argType = "string"
        /\ includes(collapseSpaces(toLowerCase(NameText(layout, nameWords))), "smoked tofu"))
          => result = Return("tofu")
    /\ (Corrected /\ batch = << Str("2 cups extra virgin olive oil") >>)
          => Unique = << "2 cup olive oil" >>

\* lines that start with a quantity and hold " and ", with what the caller
\* meant by them: the quantity, the unit word ("" when there is none) and the
\* parts
CompositeLines ==
    ( "1 pinch salt and pepper"
         :> [qty |-> "1", unit |-> "pinch", parts |-> << "salt", "pepper" >>]
    @@ "1 Pinch salt and pepper"
         :> [qty |-> "1", unit |-> "Pinch", parts |-> << "salt", "pepper" >>]
    @@ "1 tbsp Fresh salt And olive oil"
         :> [qty |-> "1", unit |-> "tbsp", parts |-> << "Fresh salt", "olive oil" >>]
    @@ "2 g tofu and soy milk and rice and olive oil salt"
         :> [qty |-> "2", unit |-> "g",
             parts |-> << "tofu", "soy milk", "rice", "olive oil salt" >>]
    @@ "2 eggs and milk"
         :> [qty |-> "2", unit |-> "", parts |-> << "eggs", "milk" >>] )

\* the unit a later part gets from its name, by the order of the rules
UnitByName(name) ==
    IF \E w \in {"salt", "pepper", "spice"} : includes(toLowerCase(name), w) THEN "tsp"
    ELSE IF \E w \in {"oil", "vinegar", "sauce"} : includes(toLowerCase(name), w) THEN "tbsp"
    ELSE IF \E w \in {"milk", "water", "juice"} : includes(toLowerCase(name), w) THEN "cup"
    ELSE "tsp"

\* what an entry starts with: the quantity, the unit word if any, and a space
EntryHead(qty, unit) == IF unit = "" THEN qty \o " " ELSE qty \o " " \o unit \o " "

\* C20: in normalizeIngredients a line that starts with a quantity token and
\* contains " and " yields one entry per part: the first keeps the line's own
\* quantity and unit token, each later part gets quantity 1 and the unit its
\* name selects (tsp for salt, pepper, spice; tbsp for oil, vinegar, sauce;
\* cup for milk, water, juice; tsp otherwise).
C20_CompositeParts ==
    (Corrected /\ Len(batch) = 1 /\ batch[1].v \in DOMAIN CompositeLines)
       => LET line == CompositeLines[batch[1].v]
          IN  /\ Len(Produced) = Len(line.parts)
              /\ \A k \in 1..Len(Produced) :
                    IF k = 1
                    THEN HasAt(Produced[k], EntryHead(line.qty, line.unit), 1)
                    ELSE HasAt(Produced[k], EntryHead("1", UnitByName(line.parts[k])), 1)

\* the entry is null, undefined, empty or made of whitespace only
Blank(entry) ==
    \/ entry.t \in {"null", "undefined"}
    \/ \A i \in 1..Len(entry.v) : Ch(entry.v, i) \in {" ", "\t", "\n", "\r"}

Diagnostics == result.value.diagnostics

\* C21: normalizeIngredients records a diagnostic {original, normalized: null,
\* reason: "unparsed"} exactly for the entries that are null, undefined, empty
\* or whitespace-only, one for each; such an entry adds nothing to the
\* normalized list and does not stop the entries after it, and a non-blank
\* line without a leading quantity is passed on as a bare name.
C21_UnparsedIffBlank ==
    (fn = "normalizeIngredients" /\ pc = "done" /\ argType = "array")
       => /\ result.ok
          /\ \A k \in 1..Len(Diagnostics) :
                (Diagnostics[k].reason = "unparsed" \/ Diagnostics[k].normalized = Null)
                   => /\ Blank(Diagnostics[k].original)
                      /\ Diagnostics[k].normalized = Null
                      /\ Diagnostics[k].reason = "unparsed"
          /\ Cardinality({k \in 1..Len(Diagnostics) : Diagnostics[k].reason = "unparsed"})
                = Cardinality({i \in 1..Len(batch) : Blank(batch[i])})
          /\ \A i \in 1..Len(batch) :
                \E k \in 1..Len(Diagnostics) :
                   /\ Diagnostics[k].original = batch[i]
                   /\ Blank(batch[i]) <=> Diagnostics[k].reason = "unparsed"
          /\ (\A i \in 1..Len(batch) : Blank(batch[i])) => Unique = << >>
          /\ (\E i \in 1..Len(batch) : batch[i] = Str("salt"))
                => \E k \in 1..Len(Unique) : Unique[k] = "salt"

\* a null entry was reported and the bare name after it was passed on
C21_Witness ==
    /\ Corrected
    /\ batch = << Null, Str("salt") >>
    /\ Unique = << "salt" >>
    /\ Diagnostics = << Diagnostic(Null, Null, "unparsed"),
                        Diagnostic(Str("salt"), Str("salt"), "normalized") >>

\* the strings parseRawIngredient made of the only entry of the batch
ParsedStrings == parseRawIngredient(batch[1]).list

\* the name portion of a parsed string: what follows its quantity and unit
NamePortion(p) == namePartOf(p, fullMatch(p, TRUE))

\* the quantity token and the unit token at the front of a parsed string whose
\* name portion is n
FrontTokens(p, n) == SubSeq(p, 1, Len(p) - Len(n))

\* C22: when normalizeIngredients rebuilds an entry from a parsed string, only
\* the name portion changes: the quantity token and the unit token at the
\* front are the same after name cleaning as before it, and the cleaned name
\* is what follows them.
C22_OnlyNameChanges ==
    (Corrected /\ Len(batch) = 1 /\ Len(Produced) = Len(ParsedStrings))
       => \A k \in 1..Len(Produced) :
             \A p \in {ParsedStrings[k]} :
                \A n \in {NamePortion(p)} :
                   Produced[k] = FrontTokens(p, n) \o cleanupName(n).v[1]

\* C23: every record returned by normalizeIngredient has a non-empty name:
\* neither adjective stripping nor splitting on " and " leaves a record whose
\* name is the empty string.
C23_NamesNotEmpty ==
    (Normalized /\ result.ok) => \A k \in 1..Len(Records) : Records[k].name # ""

(***************************************************************************)
(* The FatSecret servers: the OAuth token cache (part_001, part_002), the  *)
(* parallel lookups of POST /nutrition (part_001), the retry loop of       *)
(* fetchWithRetry and the retried call of callFatSecretApi (part_002).     *)
(* Times are counted in ticks of 30 seconds.                               *)
(***************************************************************************)
MaxClock == 3

\* the ingredients of a request to the parallel and to the recipe server
MaxIngredients == 2

\* the ingredients of a request to the proxy server, each with its own retry loop
MaxFetches == 1

MaxRequests == 2

\* the 60000 ms that getAccessToken keeps clear of the expiry: two ticks
RefreshMargin == 2

\* expires_in * 1000 of a token response, in ticks
ExpiresIn == {1, 4}

\* retries = 3
DefaultRetries == 3

\* what a fetch meets: a response with a status and a body that parses as JSON
\* or not, or no response at all (status 0: fetch rejects)
Statuses == {200, 401, 404, 500, 503}

NetworkError == [status |-> 0, json |-> FALSE]

Replies == {[status |-> st, json |-> j] : st \in Statuses, j \in BOOLEAN} \cup {NetworkError}

\* response.ok
IsOk(status) == status >= 200 /\ status < 300

\* a token response that carries a token: OK, with a JSON body
Grants(reply) == reply.status # 0 /\ IsOk(reply.status) /\ reply.json

\* the state of a token call: what it saw in the cache, whether it answered
\* from the cache, whether it sent a token request, and what it returned
FromCache(tok, exp, now) ==
    [pc |-> "returned", now |-> now, seenToken |-> tok, seenExpiry |-> exp,
     cached |-> TRUE, requested |-> FALSE, value |-> tok]

Requesting(tok, exp, now) ==
    [pc |-> "fetch", now |-> now, seenToken |-> tok, seenExpiry |-> exp,
     cached |-> FALSE, requested |-> TRUE, value |-> 0]

WithoutKeys(tok, exp, now) ==
    [pc |-> "returned", now |-> now, seenToken |-> tok, seenExpiry |-> exp,
     cached |-> FALSE, requested |-> FALSE, value |-> 0]

\* a variant that reuses the cached token whatever its expiry
getFatSecretToken_IgnoresExpiry(tok, exp, now) ==
    IF tok # 0 THEN FromCache(tok, exp, now) ELSE Requesting(tok, exp, now)

\* getFatSecretToken, up to its first await: the cached token, or a token
\* request
getFatSecretToken(tok, exp, now) ==
    IF tok # 0 /\ now < exp THEN FromCache(tok, exp, now) ELSE Requesting(tok, exp, now)

\* getAccessToken, up to its first await
getAccessToken(tok, exp, now) ==
    IF tok # 0 /\ now < exp - RefreshMargin THEN FromCache(tok, exp, now)
    ELSE IF ~keys THEN WithoutKeys(tok, exp, now)
    ELSE Requesting(tok, exp, now)

\* the library is loaded and idle while a server runs
LibraryIdle ==
    /\ tables = [normalizer |-> NormalizerModule, corrector |-> CorrectorModule]
    /\ memo = << >>
    /\ calls = 0
    /\ pc = "done"
    /\ result = Return("")
    /\ fn = "none"
    /\ argType = "string"
    /\ layout = "plain"
    /\ qtyTok = ""
    /\ unitTok = ""
    /\ nameWords = << >>
    /\ batch = << >>

\* a server was started: part_001 exits at load when a credential is missing,
\* the two servers of part_002 start without them
InitFatSecret ==
    /\ LibraryIdle
    /\ server \in {"parallel", "proxy", "recipe"}
    /\ keys \in (IF server = "parallel" THEN {TRUE} ELSE BOOLEAN)
    /\ clock = 0
    /\ issued = 0
    /\ handled = 0
    /\ response = "idle"
    /\ fatSecretToken = 0
    /\ fatSecretTokenExpiresAt = 0
    /\ lookups = << >>
    /\ accessToken = 0
    /\ tokenExpiryTime = 0
    /\ tokenCall = NoCall
    /\ fetches = << >>
    /\ api = NoApi
    /\ lastHandled = NoToken
    /\ NoEdamam

\* time passes
Tick ==
    /\ server \in {"parallel", "proxy", "recipe"}
    /\ clock < MaxClock
    /\ clock' = clock + 1
    /\ UNCHANGED <<libraryVars, edamamVars, server, keys, issued, handled, response, fatSecretToken,
                   fatSecretTokenExpiresAt, lookups, accessToken, tokenExpiryTime,
                   tokenCall, fetches, api, lastHandled>>

\* ---- part_001: POST /nutrition ----

\* the handler up to its first await: 400 on an empty list, else every
\* ingredient's fetchIngredientNutrition is started, and each runs
\* getFatSecretToken up to its first await before any response is handled
PostNutrition ==
    /\ server = "parallel"
    /\ response # "pending"
    /\ \A i \in DOMAIN lookups : lookups[i].pc \in {"done", "thrown"}
    /\ handled < MaxRequests
    /\ handled' = handled + 1
    /\ \E n \in 0..MaxIngredients :
          /\ lookups' = [i \in 1..n |->
                           getFatSecretToken(fatSecretToken, fatSecretTokenExpiresAt, clock)]
          /\ response' = IF n = 0 THEN "400" ELSE "pending"
    /\ UNCHANGED <<libraryVars, edamamVars, server, keys, clock, issued, fatSecretToken,
                   fatSecretTokenExpiresAt, accessToken, tokenExpiryTime, tokenCall,
                   fetches, api, lastHandled>>

\* a variant whose cache keeps the token it already holds
TokenResponse_KeepsFirst ==
    /\ server = "parallel"
    /\ \E i \in DOMAIN lookups, reply \in Replies, e \in ExpiresIn :
          /\ lookups[i].pc = "fetch"
          /\ IF Grants(reply)
             THEN /\ issued' = issued + 1
                  /\ fatSecretToken' = IF fatSecretToken # 0 THEN fatSecretToken
                                       ELSE issued + 1
                  /\ fatSecretTokenExpiresAt' =
                        IF fatSecretToken # 0 THEN fatSecretTokenExpiresAt
                        ELSE lookups[i].now + e
                  /\ lastHandled' = [token |-> issued + 1, expiresAt |-> lookups[i].now + e]
                  /\ lookups' = [lookups EXCEPT ![i].pc = "returned",
                                                ![i].value = issued + 1]
             ELSE /\ lookups' = [lookups EXCEPT ![i].pc = "thrown"]
                  /\ UNCHANGED <<issued, fatSecretToken, fatSecretTokenExpiresAt,
                                 lastHandled>>
    /\ UNCHANGED <<libraryVars, edamamVars, server, keys, clock, handled, response, accessToken,
                   tokenExpiryTime, tokenCall, fetches, api>>

\* getFatSecretToken after its await: a rejected fetch, a non-OK response or a
\* body that is no JSON throws; a token response is written to the cache, its
\* expiry counted from the time the call started
TokenResponse ==
    /\ server = "parallel"
    /\ \E i \in DOMAIN lookups, reply \in Replies, e \in ExpiresIn :
          /\ lookups[i].pc = "fetch"
          /\ IF Grants(reply)
             THEN /\ issued' = issued + 1
                  /\ fatSecretToken' = issued + 1
                  /\ fatSecretTokenExpiresAt' = lookups[i].now + e
                  /\ lastHandled' = [token |-> issued + 1, expiresAt |-> lookups[i].now + e]
                  /\ lookups' = [lookups EXCEPT ![i].pc = "returned",
                                                ![i].value = issued + 1]
             ELSE /\ lookups' = [lookups EXCEPT ![i].pc = "thrown"]
                  /\ UNCHANGED <<issued, fatSecretToken, fatSecretTokenExpiresAt,
                                 lastHandled>>
    /\ UNCHANGED <<libraryVars, edamamVars, server, keys, clock, handled, response, accessToken,
                   tokenExpiryTime, tokenCall, fetches, api>>

\* the rest of fetchIngredientNutrition: the search and the detail request
\* end in the nutrients or in an exception
LookupSettles ==
    /\ server = "parallel"
    /\ \E i \in DOMAIN lookups, found \in BOOLEAN :
          /\ lookups[i].pc = "returned"
          /\ lookups' = [lookups EXCEPT ![i].pc = IF found THEN "done" ELSE "thrown"]
    /\ UNCHANGED <<libraryVars, edamamVars, server, keys, clock, issued, handled, response,
                   fatSecretToken, fatSecretTokenExpiresAt, accessToken, tokenExpiryTime,
                   tokenCall, fetches, api, lastHandled>>

\* Promise.all settles: 500 as soon as one lookup threw, 200 when all returned
NutritionResponds ==
    /\ server = "parallel"
    /\ response = "pending"
    /\ \/ /\ \E i \in DOMAIN lookups : lookups[i].pc = "thrown"
          /\ response' = "500"
       \/ /\ \A i \in DOMAIN lookups : lookups[i].pc = "done"
          /\ response' = "200"
    /\ UNCHANGED <<libraryVars, edamamVars, server, keys, clock, issued, handled, fatSecretToken,
                   fatSecretTokenExpiresAt, lookups, accessToken, tokenExpiryTime,
                   tokenCall, fetches, api, lastHandled>>

\* ---- part_002: the token call of both servers ----

\* getAccessToken after its await. A non-OK response returns null. A rejected
\* fetch or a body that is no JSON goes to the catch block, which returns null
\* and, in the second server only, clears the cache first.
AccessTokenResponse ==
    /\ server \in {"proxy", "recipe"}
    /\ tokenCall.pc = "fetch"
    /\ \E reply \in Replies, e \in ExpiresIn :
          IF Grants(reply)
          THEN /\ issued' = issued + 1
               /\ accessToken' = issued + 1
               /\ tokenExpiryTime' = clock + e
               /\ lastHandled' = [token |-> issued + 1, expiresAt |-> clock + e]
               /\ tokenCall' = [tokenCall EXCEPT !.pc = "returned", !.value = issued + 1]
          ELSE /\ tokenCall' = [tokenCall EXCEPT !.pc = "returned"]
               /\ IF server = "recipe" /\ (reply.status = 0 \/ IsOk(reply.status))
                  THEN accessToken' = 0 /\ tokenExpiryTime' = 0
                  ELSE UNCHANGED <<accessToken, tokenExpiryTime>>
               /\ UNCHANGED <<issued, lastHandled>>
    /\ UNCHANGED <<libraryVars, edamamVars, server, keys, clock, handled, response, fatSecretToken,
                   fatSecretTokenExpiresAt, lookups, fetches, api>>

\* ---- part_002, first server: POST /api/nutrition with fetchWithRetry ----

\* a fetchWithRetry call that waits for the route's token
Waiting == [pc |-> "token", i |-> 0, requests |-> 0, result |-> "none", last |-> "none"]

\* the handler up to its first await: 400 on an empty list, else the token call
ProxyRequest ==
    /\ server = "proxy"
    /\ response # "pending"
    /\ handled < MaxRequests
    /\ handled' = handled + 1
    /\ \E n \in 0..MaxFetches :
          IF n = 0
          THEN /\ response' = "400"
               /\ fetches' = << >>
               /\ UNCHANGED tokenCall
          ELSE /\ response' = "pending"
               /\ fetches' = [i \in 1..n |-> Waiting]
               /\ tokenCall' = getAccessToken(accessToken, tokenExpiryTime, clock)
    /\ UNCHANGED <<libraryVars, edamamVars, server, keys, clock, issued, fatSecretToken,
                   fatSecretTokenExpiresAt, lookups, accessToken, tokenExpiryTime, api,
                   lastHandled>>

\* the handler after the token call: 500 without a token, else every
\* ingredient's fetchWithRetry sends its first request
ProxyFetches ==
    /\ server = "proxy"
    /\ response = "pending"
    /\ tokenCall.pc = "returned"
    /\ \A i \in DOMAIN fetches : fetches[i].pc = "token"
    /\ IF tokenCall.value = 0
       THEN /\ response' = "500"
            /\ fetches' = << >>
       ELSE /\ fetches' = [i \in DOMAIN fetches |->
                             [fetches[i] EXCEPT !.pc = "fetch", !.requests = 1]]
            /\ UNCHANGED response
    /\ UNCHANGED <<libraryVars, edamamVars, server, keys, clock, issued, handled, fatSecretToken,
                   fatSecretTokenExpiresAt, lookups, accessToken, tokenExpiryTime,
                   tokenCall, api, lastHandled>>

\* what the loop does with a reply; last is what the latest reply was
Backoff(f, why) == [f EXCEPT !.pc = "backoff", !.last = why]

Ends(f, value, why) ==
    [f EXCEPT !.pc = "done", !.result = value, !.last = why]

\* a variant that tries again after every response that is not OK
fetchReply_RetriesEveryStatus(f, reply) ==
    IF reply.status = 0 THEN Backoff(f, "exception")
    ELSE IF ~IsOk(reply.status) THEN Backoff(f, "client")
    ELSE IF reply.json THEN Ends(f, "parsed", "ok")
    ELSE Backoff(f, "exception")

\* one turn of the loop of fetchWithRetry after its await: a status of 500 or
\* above waits and continues, another non-OK status returns null, an OK body
\* is parsed and returned, and an exception (a rejected fetch, a body that is
\* no JSON) is caught, waits, and lets the loop go on
fetchReply(f, reply) ==
    IF reply.status = 0 THEN Backoff(f, "exception")
    ELSE IF ~IsOk(reply.status)
         THEN IF reply.status >= 500 THEN Backoff(f, "server")
              ELSE Ends(f, "null", "client")
    ELSE IF reply.json THEN Ends(f, "parsed", "ok")
    ELSE Backoff(f, "exception")

FetchResponse ==
    /\ server = "proxy"
    /\ \E k \in DOMAIN fetches, reply \in Replies :
          /\ fetches[k].pc = "fetch"
          /\ fetches' = [fetches EXCEPT ![k] = fetchReply(fetches[k], reply)]
    /\ UNCHANGED <<libraryVars, edamamVars, server, keys, clock, issued, handled, response,
                   fatSecretToken, fatSecretTokenExpiresAt, lookups, accessToken,
                   tokenExpiryTime, tokenCall, api, lastHandled>>

\* the 500 ms wait is over: i++, and either the next request is sent or the
\* loop is left and null returned
FetchAgain ==
    /\ server = "proxy"
    /\ \E k \in DOMAIN fetches :
          /\ fetches[k].pc = "backoff"
          /\ fetches' =
               [fetches EXCEPT ![k] =
                  IF fetches[k].i + 1 < DefaultRetries
                  THEN [fetches[k] EXCEPT !.i = @ + 1, !.requests = @ + 1, !.pc = "fetch"]
                  ELSE [fetches[k] EXCEPT !.i = @ + 1, !.pc = "done", !.result = "null"]]
    /\ UNCHANGED <<libraryVars, edamamVars, server, keys, clock, issued, handled, response,
                   fatSecretToken, fatSecretTokenExpiresAt, lookups, accessToken,
                   tokenExpiryTime, tokenCall, api, lastHandled>>

\* Promise.all settles: the sums are answered
ProxyResponds ==
    /\ server = "proxy"
    /\ response = "pending"
    /\ fetches # << >>
    /\ \A i \in DOMAIN fetches : fetches[i].pc = "done"
    /\ response' = "200"
    /\ UNCHANGED <<libraryVars, edamamVars, server, keys, clock, issued, handled, fatSecretToken,
                   fatSecretTokenExpiresAt, lookups, accessToken, tokenExpiryTime,
                   tokenCall, fetches, api, lastHandled>>

\* ---- part_002, second server: POST /api/nutrition with callFatSecretApi ----

\* the handler up to its first await: 400 on an empty list, else
\* callFatSecretApi(payload), which starts with the token call
RecipeRequest ==
    /\ server = "recipe"
    /\ response # "pending"
    /\ handled < MaxRequests
    /\ handled' = handled + 1
    /\ \E n \in 0..MaxIngredients :
          IF n = 0
          THEN /\ response' = "400"
               /\ UNCHANGED <<tokenCall, api>>
          ELSE /\ response' = "pending"
               /\ api' = [NoApi EXCEPT !.pc = "token"]
               /\ tokenCall' = getAccessToken(accessToken, tokenExpiryTime, clock)
    /\ UNCHANGED <<libraryVars, edamamVars, server, keys, clock, issued, fatSecretToken,
                   fatSecretTokenExpiresAt, lookups, accessToken, tokenExpiryTime,
                   fetches, lastHandled>>

\* callFatSecretApi after the token call: throws without a token, else sends
\* the nutrition request with it
ApiSends ==
    /\ server = "recipe"
    /\ api.pc = "token"
    /\ tokenCall.pc = "returned"
    /\ api' = IF tokenCall.value = 0
              THEN [api EXCEPT !.pc = "thrown"]
              ELSE [api EXCEPT !.pc = "fetch", !.requests = @ + 1,
                               !.tokens = Append(@, tokenCall.value)]
    /\ UNCHANGED <<libraryVars, edamamVars, server, keys, clock, issued, handled, response,
                   fatSecretToken, fatSecretTokenExpiresAt, lookups, accessToken,
                   tokenExpiryTime, tokenCall, fetches, lastHandled>>

\* a variant that tries again whenever the status is 401 or 500
ApiResponse_RetriesAgain ==
    /\ server = "recipe"
    /\ api.pc = "fetch"
    /\ \E reply \in Replies :
          IF reply.status \in {401, 500}
          THEN /\ accessToken' = 0
               /\ tokenExpiryTime' = 0
               /\ api' = [api EXCEPT !.pc = "token", !.isRetry = TRUE,
                                     !.statuses = Append(@, reply.status),
                                     !.issuedAtReset = issued]
               /\ tokenCall' = getAccessToken(0, 0, clock)
          ELSE /\ api' = [api EXCEPT !.pc = IF reply.status # 0 /\ IsOk(reply.status)
                                               /\ reply.json
                                            THEN "returned" ELSE "thrown",
                                     !.statuses = Append(@, reply.status)]
               /\ UNCHANGED <<accessToken, tokenExpiryTime, tokenCall>>
    /\ UNCHANGED <<libraryVars, edamamVars, server, keys, clock, issued, handled, response,
                   fatSecretToken, fatSecretTokenExpiresAt, lookups, fetches, lastHandled>>

\* callFatSecretApi after the nutrition request: an OK body is returned; 401
\* or 500 on the first attempt clears the cache and calls callFatSecretApi
\* again with isRetry, which starts with a token call; everything else,
\* a rejected fetch and a body that is no JSON included, is thrown
ApiResponse ==
    /\ server = "recipe"
    /\ api.pc = "fetch"
    /\ \E reply \in Replies :
          IF reply.status \in {401, 500} /\ ~api.isRetry
          THEN /\ accessToken' = 0
               /\ tokenExpiryTime' = 0
               /\ api' = [api EXCEPT !.pc = "token", !.isRetry = TRUE,
                                     !.statuses = Append(@, reply.status),
                                     !.issuedAtReset = issued]
               /\ tokenCall' = getAccessToken(0, 0, clock)
          ELSE /\ api' = [api EXCEPT !.pc = IF reply.status # 0 /\ IsOk(reply.status)
                                               /\ reply.json
                                            THEN "returned" ELSE "thrown",
                                     !.statuses = Append(@, reply.status)]
               /\ UNCHANGED <<accessToken, tokenExpiryTime, tokenCall>>
    /\ UNCHANGED <<libraryVars, edamamVars, server, keys, clock, issued, handled, response,
                   fatSecretToken, fatSecretTokenExpiresAt, lookups, fetches, lastHandled>>

\* the handler after callFatSecretApi: 200 with the nutrition, 502 on a body
\* without it, 500 on an exception
RecipeResponds ==
    /\ server = "recipe"
    /\ response = "pending"
    /\ \/ /\ api.pc = "returned"
          /\ response' \in {"200", "502"}
       \/ /\ api.pc = "thrown"
          /\ response' = "500"
    /\ UNCHANGED <<libraryVars, edamamVars, server, keys, clock, issued, handled, fatSecretToken,
                   fatSecretTokenExpiresAt, lookups, accessToken, tokenExpiryTime,
                   tokenCall, fetches, api, lastHandled>>

NextFatSecret ==
    \/ Tick
    \/ PostNutrition
    \/ TokenResponse
    \/ LookupSettles
    \/ NutritionResponds
    \/ AccessTokenResponse
    \/ ProxyRequest
    \/ ProxyFetches
    \/ FetchResponse
    \/ FetchAgain
    \/ ProxyResponds
    \/ RecipeRequest
    \/ ApiSends
    \/ ApiResponse
    \/ RecipeResponds

SpecFatSecret == InitFatSecret /\ [][NextFatSecret]_vars

(***************************************************************************)
(* Properties of the FatSecret servers                                     *)
(***************************************************************************)

\* the token calls made for the current request
TokenCalls ==
    {lookups[i] : i \in DOMAIN lookups}
        \cup (IF tokenCall.pc = "idle" THEN {} ELSE {tokenCall})

\* how long before the recorded expiry the function stops using the token
Margin == IF server = "parallel" THEN 0 ELSE RefreshMargin

\* the call found a token in the cache that it may still use
Fresh(c) == c.seenToken # 0 /\ c.now < c.seenExpiry - Margin

\* C24 as stated: a token call answers from the cache, without a token request,
\* exactly when a token is cached and the time is before its recorded expiry
\* (getFatSecretToken) or more than 60 seconds before it (getAccessToken); every
\* other call sends a token request; a token answered from the cache has a
\* recorded expiry that is still ahead when it is returned.
C24_CachedOnlyWhileValid ==
    \A c \in TokenCalls :
        /\ c.cached <=> Fresh(c)
        /\ c.cached => (~c.requested /\ c.value = c.seenToken /\ c.now < c.seenExpiry)
        /\ ~c.cached => c.requested

\* C24, amended: as above, except that a call of getAccessToken that cannot
\* answer from the cache sends a token request only when the client id and the
\* client secret are set, and returns null without a request otherwise.
C24_CachedOnlyWhileValidOrNoKeys ==
    \A c \in TokenCalls :
        /\ c.cached <=> Fresh(c)
        /\ c.cached => (~c.requested /\ c.value = c.seenToken /\ c.now < c.seenExpiry)
        /\ ~c.cached => (c.requested <=> keys)
        /\ (~c.cached /\ ~keys) => (c.pc = "returned" /\ c.value = 0)

\* a later call was answered from the cache
C24_Witness ==
    \E c \in TokenCalls : c.cached /\ c.now > 0 /\ c.value # 0

\* C25: in POST /nutrition of part_001, when the lookups of a request start
\* while no valid token is cached, every one of the N lookups sends its own
\* token request, and the cache holds the token and the expiry of the token
\* response that was handled last.
C25_NoCoalescing ==
    server = "parallel" =>
        /\ (lookups # << >> /\ ~Fresh(lookups[1])) =>
               Cardinality({i \in DOMAIN lookups : lookups[i].requested}) = Len(lookups)
        /\ lastHandled # NoToken =>
               /\ fatSecretToken = lastHandled.token
               /\ fatSecretTokenExpiresAt = lastHandled.expiresAt

\* two lookups each got their own token, the second lookup's response was
\* handled first, and the cache holds the first lookup's token
C25_Witness ==
    /\ server = "parallel"
    /\ Len(lookups) = 2
    /\ lookups[1].requested /\ lookups[2].requested
    /\ lookups[2].value > 0
    /\ lookups[1].value > lookups[2].value
    /\ fatSecretToken = lookups[1].value

\* what every fetchWithRetry call keeps to: at most `retries` requests, i
\* below `retries` while it runs, and the parsed response or null at its end
BoundedRetry(f) ==
    /\ f.requests <= DefaultRetries
    /\ f.pc # "done" => f.i < DefaultRetries
    /\ f.pc = "done" <=> f.result \in {"parsed", "null"}
    /\ f.result = "parsed" => f.last = "ok"

LastStatus == api.statuses[Len(api.statuses)]

\* C27: callFatSecretApi makes at most two nutrition requests; it makes the
\* second only after 401 or 500 on the first, with the cache cleared and with a
\* token issued after that reset; a non-OK answer to the second attempt, and
\* any other non-OK status on the first, is thrown.
C27_RetriesOnce ==
    server = "recipe" =>
        /\ api.requests <= 2
        /\ Len(api.tokens) = api.requests
        /\ Len(api.statuses) <= api.requests
        /\ api.isRetry <=> (api.statuses # << >> /\ api.statuses[1] \in {401, 500})
        /\ api.requests = 2 => (api.isRetry /\ api.tokens[2] > api.issuedAtReset)
        /\ (api.isRetry /\ api.pc = "token") =>
               /\ tokenCall.seenToken = 0 /\ tokenCall.seenExpiry = 0
               /\ ~tokenCall.cached
               /\ tokenCall.pc = "fetch" => (accessToken = 0 /\ tokenExpiryTime = 0)
        /\ api.pc = "returned" => IsOk(LastStatus)
        /\ (api.statuses # << >> /\ ~IsOk(LastStatus)
              /\ ~(Len(api.statuses) = 1 /\ LastStatus \in {401, 500})) =>
               api.pc = "thrown"

\* the second attempt, made with a new token, was answered
C27_Witness ==
    /\ server = "recipe"
    /\ api.requests = 2
    /\ api.pc = "returned"
    /\ api.tokens[2] > api.tokens[1]

(***************************************************************************)
(* The Edamam servers: handleBatchAnalyze with its cache (server.js, the   *)
(* Redis-enabled server of lines 109-394 and the memory-only server of     *)
(* lines 396-618) and the route POST / of routes/nutrition-edamam.js       *)
(***************************************************************************)

\* what these servers leave alone
tokenVars ==
    <<keys, clock, issued, fatSecretToken, fatSecretTokenExpiresAt, lookups, accessToken,
      tokenExpiryTime, tokenCall, fetches, api, lastHandled>>

\* req.body.ingredients: no array, or an array of JavaScript values
NotAnArray == [array |-> FALSE, list |-> << >>]

AnalyzeLists ==
    { << >>, <<Str("Rice")>>, <<Str(" rice ")>>, <<Str("rice"), Str("Salt")>>, <<Null>> }

\* req.body.servings: 0 stands for a missing or falsy value
ServingsValues == {0, 1, 2}

AnalyzeBodies ==
    {[ingredients |-> i, servings |-> n] :
        i \in {NotAnArray} \cup {[array |-> TRUE, list |-> l] : l \in AnalyzeLists},
        n \in ServingsValues}

Strings(list) == \A k \in DOMAIN list : list[k].t = "string"

\* normalizeIngredients of the memory-only server: ingredients.map(i => i.trim()),
\* which throws on an entry that has no trim method
normalizeIngredientsPassthrough(list) ==
    IF Strings(list)
    THEN Return([normalized |-> [k \in DOMAIN list |-> trim(list[k].v)],
                 diagnostics |-> << >>])
    ELSE Throw("TypeError")

\* Number(servings || 1)
NumberOr1(servings) == IF servings = 0 THEN 1 ELSE servings

\* Math.max(1, Number(servings || 1))
Divisor(servings) == IF NumberOr1(servings) < 1 THEN 1 ELSE NumberOr1(servings)

\* cacheKeyFor: the SHA-256 digest of the JSON text of the trimmed, lower-cased
\* ingredients and the servings number; the digest is taken to be free of
\* collisions, so the key is that pair itself
cacheKeyFor(ingredients, servings) ==
    <<[k \in DOMAIN ingredients |-> toLowerCase(trim(ingredients[k]))], NumberOr1(servings)>>

\* getCached of the Redis-enabled server: its first statement reads
\* memoryCache, an identifier the module never declares (the LRU is bound to
\* `cache`), so the call throws before the memory or Redis lookup
getCachedRedis(key) == Throw("ReferenceError")

\* getCached of the memory-only server: cache.get(key) || null
getCached(key) == IF key \in DOMAIN cache THEN Return(cache[key]) ELSE Return(NoPayload)

\* what Edamam answers to nutrition-details: a body with calories and the three
\* nutrients, one with calories but without them, one without a calories
\* number, or a failure (a rejected fetch, a non-OK status, a body that is no
\* JSON)
DetailReplies ==
    { [kind |-> "full", calories |-> 240], [kind |-> "partial", calories |-> 240],
      [kind |-> "nocalories", calories |-> 0], [kind |-> "failed", calories |-> 0] }

\* what Edamam answers to nutrition-data: "rejected" (the fetch rejects or the
\* body is no JSON), "notok" (a non-OK status: null), "data" (a body with
\* calories) or "empty" (a body without)
FallbackKinds == {"rejected", "notok", "data", "empty"}

\* r.calories || 0, summed
SumCalories(items) == 120 * Cardinality({k \in DOMAIN items : items[k] = "data"})

Payload(normalized, calories, mode, items) ==
    [cacheHit |-> FALSE, normalizedIngredients |-> normalized, calories |-> calories,
     mode |-> mode, items |-> items]

\* a request that was answered before it reached the cache
Refused == [NoAnalyze EXCEPT !.pc = "answered"]

\* a server was started; the route reads its API keys on every request
InitEdamam ==
    /\ LibraryIdle
    /\ server \in {"edamam", "edamamMemory", "route"}
    /\ keys \in (IF server = "route" THEN BOOLEAN ELSE {TRUE})
    /\ clock = 0
    /\ issued = 0
    /\ handled = 0
    /\ response = "idle"
    /\ fatSecretToken = 0
    /\ fatSecretTokenExpiresAt = 0
    /\ lookups = << >>
    /\ accessToken = 0
    /\ tokenExpiryTime = 0
    /\ tokenCall = NoCall
    /\ fetches = << >>
    /\ api = NoApi
    /\ lastHandled = NoToken
    /\ NoEdamam

\* ---- server.js 109-394: the Redis-enabled server ----

\* handleBatchAnalyze: 400 without a non-empty array; else the ingredients are
\* normalized by ingredientCorrector.js, the key is computed and getCached is
\* awaited, whose exception the outer catch turns into a 500
AnalyzeRequestRedis ==
    /\ server = "edamam"
    /\ analyze.pc \in {"idle", "answered"}
    /\ handled < MaxRequests
    /\ handled' = handled + 1
    /\ \E body \in AnalyzeBodies :
          IF ~body.ingredients.array \/ body.ingredients.list = << >>
          THEN analyze' = Refused /\ response' = "400"
          ELSE \E n \in {normalizeIngredients(body.ingredients.list)} :
                  IF ~n.ok
                  THEN analyze' = Refused /\ response' = "500"
                  ELSE \E key \in {cacheKeyFor(n.value.normalized, body.servings)} :
                          /\ ~getCachedRedis(key).ok
                          /\ analyze' = [Refused EXCEPT !.valid = TRUE, !.key = key,
                                                        !.normalized = n.value.normalized,
                                                        !.divisor = Divisor(body.servings)]
                          /\ response' = "500"
    /\ UNCHANGED <<libraryVars, tokenVars, server, cache, route>>

\* ---- server.js 396-618: the memory-only server ----

\* the request with its key: a cached payload is marked cacheHit and answered,
\* else the nutrition-details request is sent
AnalyzeKeyed(normalized, key, divisor) ==
    IF key \in DOMAIN cache
    THEN /\ cache' = [cache EXCEPT ![key].cacheHit = TRUE]
         /\ analyze' = [pc |-> "answered", valid |-> TRUE, key |-> key,
                        normalized |-> normalized, divisor |-> divisor, items |-> << >>,
                        calls |-> 0, cacheHit |-> TRUE,
                        payload |-> [getCached(key).value EXCEPT !.cacheHit = TRUE]]
         /\ response' = "200"
    ELSE /\ analyze' = [pc |-> "details", valid |-> TRUE, key |-> key,
                        normalized |-> normalized, divisor |-> divisor, items |-> << >>,
                        calls |-> 1, cacheHit |-> FALSE, payload |-> NoPayload]
         /\ response' = "pending"
         /\ UNCHANGED cache

\* handleBatchAnalyze up to its first fetch: 400 without a non-empty array, 500
\* when an entry has no trim method
AnalyzeRequest ==
    /\ server = "edamamMemory"
    /\ analyze.pc \in {"idle", "answered"}
    /\ handled < MaxRequests
    /\ handled' = handled + 1
    /\ \E body \in AnalyzeBodies :
          IF ~body.ingredients.array \/ body.ingredients.list = << >>
          THEN analyze' = Refused /\ response' = "400" /\ UNCHANGED cache
          ELSE \E n \in {normalizeIngredientsPassthrough(body.ingredients.list)} :
                  IF ~n.ok
                  THEN analyze' = Refused /\ response' = "500" /\ UNCHANGED cache
                  ELSE AnalyzeKeyed(n.value.normalized,
                                    cacheKeyFor(n.value.normalized, body.servings),
                                    Divisor(body.servings))
    /\ UNCHANGED <<libraryVars, tokenVars, server, route>>

\* setCached(key, payload) and res.json(payload)
Stores(payload, items) ==
    /\ cache' = (analyze.key :> payload) @@ cache
    /\ analyze' = [analyze EXCEPT !.pc = "answered", !.payload = payload, !.items = items]
    /\ response' = "200"

\* the outer catch: 500, nothing is stored
Fails(items) ==
    /\ analyze' = [analyze EXCEPT !.pc = "answered", !.items = items]
    /\ response' = "500"
    /\ UNCHANGED cache

\* handleBatchAnalyze after nutrition-details: a body with a calories number is
\* used (and throws when it lacks one of the three nutrients); a failure or a
\* body without calories sends one nutrition-data request per ingredient
DetailsReplies ==
    /\ server = "edamamMemory"
    /\ analyze.pc = "details"
    /\ \E reply \in DetailReplies :
          IF reply.kind = "full"
          THEN Stores(Payload(analyze.normalized, reply.calories \div analyze.divisor,
                              "nutrition-details", << >>), << >>)
          ELSE IF reply.kind = "partial"
          THEN Fails(<< >>)
          ELSE /\ analyze' = [analyze EXCEPT
                                !.pc = "fallback",
                                !.items = [k \in DOMAIN analyze.normalized |-> "pending"],
                                !.calls = @ + Len(analyze.normalized)]
               /\ UNCHANGED <<cache, response>>
    /\ UNCHANGED <<libraryVars, tokenVars, server, handled, route>>

\* the fallback results are in: the payload is stored and answered, or the
\* request waits for the rest
FallbackSettles(items) ==
    IF \A k \in DOMAIN items : items[k] # "pending"
    THEN Stores(Payload(analyze.normalized, SumCalories(items) \div analyze.divisor,
                        "nutrition-data-fallback", items), items)
    ELSE /\ analyze' = [analyze EXCEPT !.items = items]
         /\ UNCHANGED <<cache, response>>

\* a variant that does not store a payload made of nothing but failed lookups
FallbackReplies_SkipsEmpty ==
    /\ server = "edamamMemory"
    /\ analyze.pc = "fallback"
    /\ \E k \in DOMAIN analyze.items, kind \in FallbackKinds :
          /\ analyze.items[k] = "pending"
          /\ \E items \in {[analyze.items EXCEPT ![k] = kind]} :
                IF kind = "rejected" THEN Fails(items)
                ELSE IF \A j \in DOMAIN items : items[j] = "notok"
                THEN /\ analyze' = [analyze EXCEPT
                                      !.pc = "answered", !.items = items,
                                      !.payload = Payload(analyze.normalized, 0,
                                                          "nutrition-data-fallback", items)]
                     /\ response' = "200"
                     /\ UNCHANGED cache
                ELSE FallbackSettles(items)
    /\ UNCHANGED <<libraryVars, tokenVars, server, handled, route>>

\* handleBatchAnalyze after one nutrition-data answer: an exception rejects
\* Promise.all and ends in the outer catch; the last answer resolves it, and
\* the sums are stored and answered
FallbackReplies ==
    /\ server = "edamamMemory"
    /\ analyze.pc = "fallback"
    /\ \E k \in DOMAIN analyze.items, kind \in FallbackKinds :
          /\ analyze.items[k] = "pending"
          /\ \E items \in {[analyze.items EXCEPT ![k] = kind]} :
                IF kind = "rejected" THEN Fails(items) ELSE FallbackSettles(items)
    /\ UNCHANGED <<libraryVars, tokenVars, server, handled, route>>

\* an entry leaves the LRU: its hour is over, or it was evicted
CacheExpires ==
    /\ server = "edamamMemory"
    /\ \E key \in DOMAIN cache :
          cache' = [k \in DOMAIN cache \ {key} |-> cache[k]]
    /\ UNCHANGED <<libraryVars, tokenVars, server, handled, response, analyze, route>>

\* ---- routes/nutrition-edamam.js ----

RouteLists ==
    { << >>, <<Str("2 eggs")>>, <<Str("1 pinch Salt and Pepper")>>,
      <<Str("salt and pepper"), Str("2 eggs")>>, <<Str("2 eggs"), Null>> }

RouteBodies == {NotAnArray} \cup {[array |-> TRUE, list |-> l] : l \in RouteLists}

\* ingredient.match(/^\d+(\.\d+)?/): the text matched, "" without a match
leadingNumber(ingredient) ==
    LET e1 == DigitRunEnd(ingredient, 1)
        e2 == IF HasAt(ingredient, ".", e1) /\ DigitRunEnd(ingredient, e1 + 1) > e1 + 1
              THEN DigitRunEnd(ingredient, e1 + 1) ELSE e1
    IN  SubSeq(ingredient, 1, e2 - 1)

saltAndPepper(num, unit) ==
    << num \o " " \o unit \o " salt", num \o " " \o unit \o " pepper" >>

splitWith(ingredient, num) ==
    saltAndPepper(num, split(trim(replaceFirst(ingredient, num, "")), " ")[1])

smartSplit(ingredient) ==
    IF includes(toLowerCase(ingredient), "salt and pepper")
    THEN splitWith(ingredient,
                   IF leadingNumber(ingredient) = "" THEN "1" ELSE leadingNumber(ingredient))
    ELSE <<ingredient>>

\* ingredients.flatMap(smartSplit)
RECURSIVE flatMapSmartSplit(_)
flatMapSmartSplit(list) ==
    IF list = << >> THEN << >>
    ELSE smartSplit(list[1].v) \o flatMapSmartSplit(Tail(list))

RouteRefused == [NoRoute EXCEPT !.pc = "answered"]

\* the handler up to its first await: 400 without a non-empty array, 500
\* without the API keys, 500 (outer catch) when an entry has no toLowerCase
\* method; else the first line is looked up
RouteRequest ==
    /\ server = "route"
    /\ route.pc \in {"idle", "answered"}
    /\ handled < MaxRequests
    /\ handled' = handled + 1
    /\ \E body \in RouteBodies :
          IF ~body.array \/ body.list = << >>
          THEN route' = RouteRefused /\ response' = "400"
          ELSE IF ~keys \/ ~Strings(body.list)
          THEN route' = RouteRefused /\ response' = "500"
          ELSE /\ route' = [pc |-> "lookup", valid |-> TRUE,
                            lines |-> flatMapSmartSplit(body.list), sent |-> <<1>>,
                            results |-> << >>, notFound |-> << >>]
               /\ response' = "pending"
    /\ UNCHANGED <<libraryVars, tokenVars, server, cache, analyze>>

\* the loop goes on with the next line, or the handler answers 200
RouteGoesOn(k, results, notFound) ==
    /\ route' = [route EXCEPT !.results = results, !.notFound = notFound,
                              !.sent = IF k < Len(route.lines) THEN Append(@, k + 1) ELSE @,
                              !.pc = IF k < Len(route.lines) THEN "lookup" ELSE "answered"]
    /\ response' = IF k < Len(route.lines) THEN "pending" ELSE "200"

\* a variant that answers at the first failed lookup
RouteLookupReplies_StopsAtFailure ==
    /\ server = "route"
    /\ route.pc = "lookup"
    /\ \E found \in BOOLEAN :
          IF found
          THEN RouteGoesOn(Len(route.sent), Append(route.results, Len(route.sent)),
                           route.notFound)
          ELSE /\ route' = [route EXCEPT !.notFound = Append(@, Len(route.sent)),
                                         !.pc = "answered"]
               /\ response' = "200"
    /\ UNCHANGED <<libraryVars, tokenVars, server, handled, cache, analyze>>

\* one turn of the loop after its await: the data is pushed to results, or the
\* exception is caught and the line pushed to notFound; results and notFound
\* hold the positions of their lines in the split list
RouteLookupReplies ==
    /\ server = "route"
    /\ route.pc = "lookup"
    /\ \E found \in BOOLEAN :
          IF found
          THEN RouteGoesOn(Len(route.sent), Append(route.results, Len(route.sent)),
                           route.notFound)
          ELSE RouteGoesOn(Len(route.sent), route.results,
                           Append(route.notFound, Len(route.sent)))
    /\ UNCHANGED <<libraryVars, tokenVars, server, handled, cache, analyze>>

NextEdamam ==
    \/ AnalyzeRequestRedis
    \/ AnalyzeRequest
    \/ DetailsReplies
    \/ FallbackReplies
    \/ CacheExpires
    \/ RouteRequest
    \/ RouteLookupReplies

SpecEdamam == InitEdamam /\ [][NextEdamam]_vars

(***************************************************************************)
(* Properties of the Edamam servers                                        *)
(***************************************************************************)

\* C28: on the Redis-enabled server, a request with a non-empty ingredient
\* array that was answered either found its key in the cache and was answered
\* 200 with cacheHit true and without a call to Edamam, or was answered with
\* cacheHit false after Edamam was called, its payload stored when the answer
\* is 200.
C28_AnswersFromCache ==
    (server = "edamam" /\ analyze.pc = "answered" /\ analyze.valid) =>
        \/ response = "200" /\ analyze.cacheHit /\ analyze.calls = 0
        \/ /\ ~analyze.cacheHit
           /\ analyze.calls > 0
           /\ response = "200" => analyze.key \in DOMAIN cache

Occurrences(list, k) == Cardinality({j \in DOMAIN list : list[j] = k})

====
